---------------------------- MODULE Spec2Model ----------------------------
(***************************************************************************)
(* A model of the reassembly core of kinesin and of the TCP parser built   *)
(* on it: the RangeSet and RingBuf primitives (kinesin-rdt/src/common),    *)
(* the StreamInboundState built on them                                    *)
(* (kinesin-rdt/src/stream/inbound.rs), the Stream of one direction of a   *)
(* TCP connection (parse-tcp/src/stream.rs), the Connection                *)
(* (parse-tcp/src/connection.rs), the Flow and FlowTable                   *)
(* (parse-tcp/src/flow_table.rs), and the ReplayProtection of              *)
(* kinesin-crypto (src/replay_protection.rs).                              *)
(*                                                                         *)
(* Each component has its own specifications (SpecRS, SpecCompl, SpecRev,  *)
(* SpecRB, SpecDrain, SpecIn, SpecSeq, SpecWin, SpecSt, SpecEst, SpecRead, *)
(* SpecSeg, SpecFlow, SpecConn, SpecTerm, SpecReset, SpecClose, SpecSyn,   *)
(* SpecRP, SpecFT) over its own variables; the variables of the other      *)
(* components stay at their constructed value.                             *)
(* Every operation of the code is a pure operator on the component's value *)
(* (a record), and an action applies it to inputs drawn from small sets;   *)
(* the threads of SpecRP take the steps of an operation one at a time.     *)
(***************************************************************************)
EXTENDS Integers, Sequences, FiniteSets

VARIABLES
    rs_map,        \* RangeSet.map : start -> length
    rs_max_size,   \* RangeSet.max_size
    rs_last,       \* the last call on the RangeSet: its arguments, result and
                   \* the map it was applied to
    ring,          \* a RingBuf: [buf, head, len]
    rb_last,       \* the last call on the RingBuf: its argument, result and the
                   \* logical contents it was applied to
    debug_assertions, \* whether the build keeps debug_assert! (cfg(debug_assertions))
    inb,           \* a StreamInboundState: [buffer, buffer_offset, received,
                   \* window_limit, final_offset]
    in_last,       \* the last call on the StreamInboundState
    strm,          \* the sequence fields of a Stream
    sq_fed,        \* the number of bytes fed to the Stream since set_isn
    sq_last,       \* the last update_offset call on the Stream
    stm,           \* a Stream: one direction of a connection
    st_last,       \* the last call on the Stream: its arguments and result
    flow_map,      \* a HashMap<Flow, value>
    fl_last,       \* the last operation on Flows or on the HashMap
    the_conn,      \* a Connection, as <<connection>>, or <<>> before it is made
    cn_last,       \* the last call on the Connection
    flow_table,    \* a FlowTable
    ft_last,       \* the last call on the FlowTable, the handlers dropped and
                   \* the connections constructed so far
    rp_inner,      \* ReplayProtection.inner: [start_offset, tail, bitfield]
    rp_lock,       \* the RwLock around it: the threads holding it for reading
                   \* and the thread holding it for writing
    rp_threads,    \* for each thread its position in set_index or test_index,
                   \* the index it was called with and what its last call
                   \* returned
    rp_hist        \* per index the set_index calls that returned false so
                   \* far, and the indices a set_index call has returned for

rs_vars == <<rs_map, rs_max_size, rs_last>>
rb_vars == <<ring, rb_last, debug_assertions>>
in_vars == <<inb, in_last>>
sq_vars == <<strm, sq_fed, sq_last>>
st_vars == <<stm, st_last>>
fl_vars == <<flow_map, fl_last>>
cn_vars == <<the_conn, cn_last>>
ft_vars == <<flow_table, ft_last>>
rp_vars == <<rp_inner, rp_lock, rp_threads, rp_hist>>

vars == <<rs_map, rs_max_size, rs_last, ring, rb_last, debug_assertions,
          inb, in_last, strm, sq_fed, sq_last, stm, st_last,
          flow_map, fl_last, the_conn, cn_last, flow_table, ft_last,
          rp_inner, rp_lock, rp_threads, rp_hist>>

----------------------------------------------------------------------------
(* Bounds of the model *)

\* offsets handed to the RangeSet are in 0..MaxPoint
MaxPoint == 6
\* the caps a bounded RangeSet is created with are in 1..MaxRangeCap
MaxRangeCap == 2

\* the backing Vec of a RingBuf holds at most MaxCapacity slots
MaxCapacity == 3
\* the elements pushed are 1..MaxElem
MaxElem == 2

\* addresses are 1..MaxAddr, ports 1..MaxPort; a HashMap holds at most
\* MaxFlows entries
MaxAddr == 2
MaxPort == 2
MaxFlows == 2

\* a Connection gets at most MaxCnCalls packets, of at most MaxCnLen bytes,
\* with a window of 0 or MaxCnWindow
MaxCnCalls == 5
MaxCnLen == 2
MaxCnWindow == 3

\* a FlowTable gets at most MaxFtCalls calls
MaxFtCalls == 4

\* stream offsets and window limits are at most MaxLimit
MaxLimit == 3
\* the backing Vec of the inbound buffer holds at most MaxBufCapacity slots
MaxBufCapacity == 3
\* a segment carries at most MaxSegLen bytes
MaxSegLen == 3

\* sequence numbers are SeqBits wide
SeqBits == 6
\* a data segment carries at most MaxSeqStep bytes
MaxSeqStep == 2

\* usize::MAX, the cap of RangeSet::unlimited(): above any count the model reaches
UsizeMax == 1000000

\* Byte counts of a Stream are scaled down.
\* the largest buffer of a Stream: 128 << 20 in the source
MAX_ALLOWED_BUFFER_SIZE == 5
\* the most entries segments_info holds: 128 << 10 in the source
MAX_SEGMENTS_INFO_COUNT == 3
\* the smallest window estimate_window_scale works from: 8 in the source
MIN_ESTIMATE_WINDOW == 2
\* the window scale estimate_window_scale gives up at: 14 in the source
MAX_WINDOW_SCALE == 3
\* u64 and usize are U64Bits wide
U64Bits == 8
\* the data segments and acknowledgments given to a Stream lie at offsets up
\* to MaxStOffset, a data segment carries at most MaxStLen bytes
MaxStOffset == 5
MaxStLen == 2
\* the Vec of the buffer allocates up to MaxSlack slots more than asked for
MaxSlack == 0
\* retransmit_count and segments_info_dropped are followed up to MaxStCount
MaxStCount == 2
\* a Stream is followed through MaxStCalls calls
MaxStCalls == 5

\* usize::BITS, scaled down: an element of the bitfield of a ReplayProtection
\* holds UsizeBits bits
UsizeBits == 2
\* MaxThreads threads call set_index and test_index, each at most
\* MaxRpCalls times, with indices up to MaxRpIndex
MaxThreads == 2
MaxRpCalls == 2
MaxRpIndex == 9

U64Space == 2 ^ U64Bits
\* isize::MAX
IsizeMax == U64Space \div 2 - 1

----------------------------------------------------------------------------
(* Helpers for BTreeMap<u64, u64> as a function from its keys *)

SetMax(S) == CHOOSE x \in S : \A y \in S : y <= x
SetMin(S) == CHOOSE x \in S : \A y \in S : x <= y

\* the element of a one-element set: a value bound as the element of a set is
\* computed once
The(S) == CHOOSE x \in S : TRUE

EmptyMap == [k \in {} |-> 0]
MapInsert(m, k, v) == [x \in (DOMAIN m) \cup {k} |-> IF x = k THEN v ELSE m[x]]
MapRemove(m, k) == [x \in (DOMAIN m) \ {k} |-> m[x]]

Rng(a, b) == [start |-> a, end |-> b]

----------------------------------------------------------------------------
(* RangeSet: kinesin-rdt/src/common/range_set.rs *)

\* has_value: the last range starting at or below val covers it
has_value(map, val) ==
    LET below == {k \in DOMAIN map : k <= val} IN
    IF below # {} THEN SetMax(below) + map[SetMax(below)] > val ELSE FALSE

\* has_range: the last range starting at or below range.start reaches range.end
has_range(map, range) ==
    LET below == {k \in DOMAIN map : k <= range.start} IN
    IF below # {} THEN SetMax(below) + map[SetMax(below)] >= range.end ELSE FALSE

direct_insert(map, new_range) ==
    MapInsert(map, new_range.start, new_range.end - new_range.start)

\* the capacity check in front of an insert of an entirely new range, without
\* the check
max_checked_insert_unchecked(map, max_size, new_range) ==
    [map |-> direct_insert(map, new_range), ret |-> TRUE, unreachable |-> FALSE]

max_checked_insert(map, max_size, new_range) ==
    IF Cardinality(DOMAIN map) >= max_size
    THEN [map |-> map, ret |-> FALSE, unreachable |-> FALSE]
    ELSE [map |-> direct_insert(map, new_range), ret |-> TRUE, unreachable |-> FALSE]

\* the merge loop without the extension of new_range.end by a following range
RECURSIVE intersecting_loop_no_extend(_, _, _, _)
intersecting_loop_no_extend(map, todo, nr, to_remove) ==
    IF todo = {} THEN [range |-> nr, to_remove |-> to_remove, unreachable |-> FALSE]
    ELSE
        LET start == SetMax(todo)
            end == start + map[start]
            rest == todo \ {start}
        IN  IF start > nr.start
            THEN intersecting_loop_no_extend(map, rest, nr, to_remove \cup {start})
            ELSE IF end < nr.start
            THEN [range |-> nr, to_remove |-> to_remove, unreachable |-> FALSE]
            ELSE IF end < nr.end
            THEN intersecting_loop_no_extend(map, rest, [nr EXCEPT !.start = start],
                                             to_remove \cup {start})
            ELSE [range |-> nr, to_remove |-> to_remove, unreachable |-> TRUE]

\* the loop of _intersecting_insert over the ranges starting at or below the
\* end of the range being inserted, last first; todo are the keys not yet visited
RECURSIVE intersecting_loop(_, _, _, _)
intersecting_loop(map, todo, nr, to_remove) ==
    IF todo = {} THEN [range |-> nr, to_remove |-> to_remove, unreachable |-> FALSE]
    ELSE
        LET start == SetMax(todo)
            end == start + map[start]
            rest == todo \ {start}
        IN  IF start > nr.start
            THEN intersecting_loop(map, rest,
                                   IF end > nr.end THEN [nr EXCEPT !.end = end] ELSE nr,
                                   to_remove \cup {start})
            ELSE IF end < nr.start
            THEN [range |-> nr, to_remove |-> to_remove, unreachable |-> FALSE]
            ELSE IF end < nr.end
            THEN intersecting_loop(map, rest, [nr EXCEPT !.start = start],
                                   to_remove \cup {start})
            ELSE [range |-> nr, to_remove |-> to_remove, unreachable |-> TRUE]

intersecting_insert(map, new_range) ==
    LET r == intersecting_loop(map, {k \in DOMAIN map : k <= new_range.end},
                               new_range, {})
        kept == [x \in (DOMAIN map) \ r.to_remove |-> map[x]]
    IN  IF r.unreachable
        THEN [map |-> map, ret |-> FALSE, unreachable |-> TRUE]
        ELSE [map |-> direct_insert(kept, r.range), ret |-> TRUE, unreachable |-> FALSE]

\* insert_range whose "after all existing ranges" test also takes a range that
\* ends exactly at new_range.start for a separate one
insert_range_no_adjacent(map, max_size, new_range) ==
    LET below == {k \in DOMAIN map : k <= new_range.end} IN
    IF below # {}
    THEN LET start == SetMax(below)
             end == start + map[start]
         IN  IF start <= new_range.start /\ end >= new_range.end
             THEN [map |-> map, ret |-> TRUE, unreachable |-> FALSE]
             ELSE IF end <= new_range.start
             THEN max_checked_insert(map, max_size, new_range)
             ELSE intersecting_insert(map, new_range)
    ELSE max_checked_insert(map, max_size, new_range)

\* insert_range, for new_range.start # new_range.end (the zero-length range
\* panics before anything is read: see InsertPanics)
insert_range(map, max_size, new_range) ==
    LET below == {k \in DOMAIN map : k <= new_range.end} IN
    IF below # {}
    THEN LET start == SetMax(below)
             end == start + map[start]
         IN  IF start <= new_range.start /\ end >= new_range.end
             THEN [map |-> map, ret |-> TRUE, unreachable |-> FALSE]
             ELSE IF end < new_range.start
             THEN max_checked_insert(map, max_size, new_range)
             ELSE intersecting_insert(map, new_range)
    ELSE max_checked_insert(map, max_size, new_range)

InsertPanics(new_range) == new_range.start = new_range.end

\* pending_ops of remove_range, applied in the order they were pushed
RECURSIVE apply_pending(_, _)
apply_pending(map, ops) ==
    IF ops = << >> THEN map
    ELSE LET op == Head(ops) IN
         apply_pending(IF op.some THEN MapInsert(map, op.start, op.len)
                       ELSE MapRemove(map, op.start),
                       Tail(ops))

OpRemove(start) == [start |-> start, some |-> FALSE, len |-> 0]
OpInsert(start, len) == [start |-> start, some |-> TRUE, len |-> len]

\* the loop of remove_range without the trimmed remainder of a range that
\* starts inside to_remove and extends past its end
RECURSIVE remove_loop_drop_tail(_, _, _, _, _, _)
remove_loop_drop_tail(map, todo, lower_bound, upper_bound, ops, affected) ==
    IF todo = {} THEN [ops |-> ops, affected |-> affected]
    ELSE
        LET start == SetMax(todo)
            end == start + map[start]
            rest == todo \ {start}
        IN  IF end <= lower_bound
            THEN [ops |-> ops, affected |-> affected]
            ELSE IF end <= upper_bound
            THEN IF start >= lower_bound
                 THEN remove_loop_drop_tail(map, rest, lower_bound, upper_bound,
                                  Append(ops, OpRemove(start)), affected + 1)
                 ELSE [ops |-> Append(ops, OpInsert(start, lower_bound - start)),
                       affected |-> affected + 1]
            ELSE IF start < lower_bound
                 THEN [ops |-> ops \o <<OpInsert(start, lower_bound - start),
                                         OpInsert(upper_bound, end - upper_bound)>>,
                       affected |-> affected + 1]
                 ELSE remove_loop_drop_tail(map, rest, lower_bound, upper_bound,
                                  Append(ops, OpRemove(start)), affected + 1)

\* the loop of remove_range over the ranges starting below upper_bound, last first
RECURSIVE remove_loop(_, _, _, _, _, _)
remove_loop(map, todo, lower_bound, upper_bound, ops, affected) ==
    IF todo = {} THEN [ops |-> ops, affected |-> affected]
    ELSE
        LET start == SetMax(todo)
            end == start + map[start]
            rest == todo \ {start}
        IN  IF end <= lower_bound
            THEN [ops |-> ops, affected |-> affected]
            ELSE IF end <= upper_bound
            THEN IF start >= lower_bound
                 THEN remove_loop(map, rest, lower_bound, upper_bound,
                                  Append(ops, OpRemove(start)), affected + 1)
                 ELSE [ops |-> Append(ops, OpInsert(start, lower_bound - start)),
                       affected |-> affected + 1]
            ELSE IF start < lower_bound
                 THEN [ops |-> ops \o <<OpInsert(start, lower_bound - start),
                                         OpInsert(upper_bound, end - upper_bound)>>,
                       affected |-> affected + 1]
                 ELSE remove_loop(map, rest, lower_bound, upper_bound,
                                  ops \o <<OpRemove(start),
                                           OpInsert(upper_bound, end - upper_bound)>>,
                                  affected + 1)

\* remove_range, for lower_bound # upper_bound (equal bounds panic)
remove_range(map, lower_bound, upper_bound) ==
    LET r == remove_loop(map, {k \in DOMAIN map : k < upper_bound},
                         lower_bound, upper_bound, << >>, 0)
    IN  [map |-> apply_pending(map, r.ops), affected |-> r.affected]

----------------------------------------------------------------------------
(* RingBuf<T> (common/ring_buffer.rs): buf is the backing Vec, whose length
   is the capacity; slot i of the Vec is buf[i + 1] *)

Elem == 1..MaxElem
\* a slot of the backing Vec that was never written (Vec::set_len past the
\* initialized part)
Uninit == -1

RbNew == [buf |-> <<>>, head |-> 0, len |-> 0]
with_capacity(cap) == [buf |-> [i \in 1..cap |-> Uninit], head |-> 0, len |-> 0]

capacity(rb) == Len(rb.buf)

\* ptr::read / ptr::write at a raw offset.  An offset past the allocation is
\* undefined behaviour: the read yields an arbitrary value, as that of a slot
\* never written, and the write changes no slot of the buffer.
ptr_read(rb, offset) ==
    IF offset + 1 \in DOMAIN rb.buf THEN rb.buf[offset + 1] ELSE Uninit
ptr_write(rb, offset, val) ==
    IF offset + 1 \in DOMAIN rb.buf THEN [rb EXCEPT !.buf[offset + 1] = val] ELSE rb

\* ptr::copy of count slots from raw offset src to raw offset dst
copy(rb, src, dst, count) ==
    [rb EXCEPT !.buf = [i \in 1..Len(rb.buf) |->
        IF dst <= i - 1 /\ i - 1 < dst + count
        THEN rb.buf[src + (i - 1 - dst) + 1]
        ELSE rb.buf[i]]]

\* debug_assert!(index < self.capacity()) of offset_of_explicit and
\* offset_of_reverse: fails only in a build with debug assertions
index_assert_fails(rb, index) == debug_assertions /\ ~(index < capacity(rb))

offset_of_explicit(rb, head, index) ==
    LET remaining == capacity(rb) - index IN
    IF head < remaining THEN head + index ELSE head - remaining

offset_of(rb, index) == offset_of_explicit(rb, rb.head, index)

offset_of_reverse(rb, negative_index) ==
    IF rb.head >= negative_index
    THEN rb.head - negative_index
    ELSE rb.head + (capacity(rb) - negative_index)

\* rb.buf has already been extended from old_capacity slots
handle_buf_expand(rb, old_capacity) ==
    LET new_capacity == capacity(rb) IN
    IF rb.head <= old_capacity - rb.len
    THEN rb
    ELSE LET head_segment_len == old_capacity - rb.head
             tail_segment_len == rb.len - head_segment_len
         IN  IF head_segment_len > tail_segment_len
                /\ new_capacity - old_capacity >= tail_segment_len
             THEN copy(rb, 0, old_capacity, tail_segment_len)
             ELSE LET new_head == new_capacity - head_segment_len IN
                  [copy(rb, rb.head, new_head, head_segment_len)
                      EXCEPT !.head = new_head]

\* the capacities Vec::reserve may leave: any capacity that holds the desired
\* number of elements
GrownCapacities(rb, count) ==
    IF rb.len + count > capacity(rb)
    THEN {c \in 0..MaxCapacity : c >= rb.len + count}
    ELSE {capacity(rb)}

\* reserve(count), the Vec ending with capacity grown
reserve(rb, count, grown) ==
    LET desired_capacity == rb.len + count IN
    IF desired_capacity > capacity(rb)
    THEN LET old_capacity == capacity(rb) IN
         handle_buf_expand(
             [rb EXCEPT !.buf = rb.buf \o [i \in 1..(grown - old_capacity) |-> Uninit]],
             old_capacity)
    ELSE rb

\* Each operation returns the buffer it leaves, its return value (<<>> for
\* None or unit, <<v>> for Some(v)) and whether it panicked.
RbResult(rb, ret, panicked) == [rb |-> rb, ret |-> ret, panicked |-> panicked]

push_back(rb, val, grown) ==
    LET r == reserve(rb, 1, grown) IN
    IF index_assert_fails(r, r.len)
    THEN RbResult(r, <<>>, TRUE)
    ELSE RbResult([ptr_write(r, offset_of(r, r.len), val) EXCEPT !.len = r.len + 1],
                  <<>>, FALSE)

push_front(rb, val, grown) ==
    LET r == reserve(rb, 1, grown) IN
    IF index_assert_fails(r, 1)
    THEN RbResult(r, <<>>, TRUE)
    ELSE LET new_head == offset_of_reverse(r, 1) IN
         RbResult([ptr_write(r, new_head, val) EXCEPT !.head = new_head,
                                                       !.len = r.len + 1],
                  <<>>, FALSE)

\* the value read is the content of the slot at offset_of(self.len)
pop_back(rb) ==
    IF rb.len = 0
    THEN RbResult(rb, <<>>, FALSE)
    ELSE IF index_assert_fails(rb, rb.len)
    THEN RbResult(rb, <<>>, TRUE)
    ELSE RbResult([rb EXCEPT !.len = rb.len - 1],
                  <<ptr_read(rb, offset_of(rb, rb.len))>>, FALSE)

pop_front(rb) ==
    IF rb.len = 0
    THEN RbResult(rb, <<>>, FALSE)
    ELSE IF index_assert_fails(rb, 0) \/ index_assert_fails(rb, 1)
    THEN RbResult(rb, <<>>, TRUE)
    ELSE RbResult([rb EXCEPT !.head = offset_of(rb, 1), !.len = rb.len - 1],
                  <<ptr_read(rb, offset_of(rb, 0))>>, FALSE)

\* reading a slot that was never written yields an arbitrary value
ReadOutcomes(ret) ==
    IF ret = <<>> THEN {<<>>}
    ELSE IF ret[1] = Uninit THEN {<<v>> : v \in Elem}
    ELSE {ret}

\* the logical contents: the elements at indices 0..len-1, front first
Contents(rb) == [i \in 1..rb.len |-> ptr_read(rb, offset_of(rb, i - 1))]

RbNoCall == [op |-> "new", arg |-> 0, ret |-> <<>>, panicked |-> FALSE,
             before |-> <<>>, len_before |-> 0]

\* the RingBuf variables of a specification that does not use them
RbIdle ==
    /\ ring = RbNew
    /\ rb_last = RbNoCall
    /\ debug_assertions = FALSE

----------------------------------------------------------------------------
(* More of RangeSet and RingBuf, as used by the inbound stream state *)

RECURSIVE SeqOfSet(_)
\* the elements of a set of numbers in ascending order (BTreeMap iteration)
SeqOfSet(S) ==
    IF S = {} THEN <<>> ELSE <<SetMin(S)>> \o SeqOfSet(S \ {SetMin(S)})

\* iter_range: the stored ranges from the one that extends into range.start
\* iter_range without the search for a range that begins before the requested
\* start
iter_range_start_requested(map, range) == range.start

iter_range_start(map, range) ==
    LET below == {k \in DOMAIN map : k <= range.start} IN
    IF range.start = 0 THEN 0
    ELSE IF below # {} /\ SetMax(below) + map[SetMax(below)] > range.start
         THEN SetMax(below)
         ELSE range.start

\* BTreeMap::range(start..end) panics if start > end
iter_range_panics(map, range) == iter_range_start(map, range) > range.end

iter_range(map, range) ==
    LET start == iter_range_start(map, range)
        keys == SeqOfSet({k \in DOMAIN map : start <= k /\ k < range.end})
    IN  [i \in 1..Len(keys) |-> Rng(keys[i], keys[i] + map[keys[i]])]

RECURSIVE complement_next(_, _, _)
\* ComplementIterator::next, collected: the ranges it yields
complement_next(range, prev_end, range_iter) ==
    IF range_iter = <<>>
    THEN IF prev_end < range.end THEN <<Rng(prev_end, range.end)>> ELSE <<>>
    ELSE LET intersecting == Head(range_iter) IN
         IF intersecting.start <= prev_end
         THEN complement_next(range, intersecting.end, Tail(range_iter))
         ELSE <<Rng(prev_end, intersecting.start)>>
              \o complement_next(range, intersecting.end, Tail(range_iter))

range_complement(map, range) ==
    complement_next(range, range.start, iter_range(map, range))

\* check_range: TRUE when one of its assertions fails
check_range_fails(rb, range) ==
    ~(range.start <= range.end /\ range.start < rb.len /\ range.end <= rb.len)

\* the one or two raw spans of an element index range; b is <<>> for None
map_range_explicit(rb, head, range) ==
    IF range.start = range.end
    THEN [a |-> Rng(head, head), b |-> <<>>]
    ELSE LET start == offset_of_explicit(rb, head, range.start)
             end == offset_of_explicit(rb, head, range.end - 1)
         IN  IF end >= start
             THEN [a |-> Rng(start, end + 1), b |-> <<>>]
             ELSE [a |-> Rng(start, capacity(rb)), b |-> <<Rng(0, end + 1)>>]

map_range(rb, range) == map_range_explicit(rb, rb.head, range)

copy_range_from_slice(rb, range_a, range_b, elements) ==
    LET length_a == range_a.end - range_a.start IN
    [rb EXCEPT !.buf = [i \in 1..Len(rb.buf) |->
        IF range_a.start <= i - 1 /\ i - 1 < range_a.end
        THEN elements[i - 1 - range_a.start + 1]
        ELSE IF range_b # <<>> /\ range_b[1].start <= i - 1
                /\ i - 1 < range_b[1].start + (Len(elements) - length_a)
        THEN elements[length_a + (i - 1 - range_b[1].start) + 1]
        ELSE rb.buf[i]]]

\* range_mut(start..end).copy_from_slice(slice), its assertions passed
copy_from_slice(rb, start, end, slice) ==
    LET m == map_range(rb, Rng(start, end)) IN
    copy_range_from_slice(rb, m.a, m.b, slice)

\* fill_at_back(count, value): extend the buffer at the back by count copies of
\* value, the Vec ending with capacity grown
fill_at_back(rb, count, value, grown) ==
    LET r == reserve(rb, count, grown)
        m == map_range(r, Rng(r.len, r.len + count))
    IN  [copy_range_from_slice(r, m.a, m.b, [i \in 1..count |-> value])
            EXCEPT !.len = r.len + count]

clear(rb) == [rb EXCEPT !.head = 0, !.len = 0]

\* Drain::from_start, the Drain dropped at once (dropping u8 does nothing)
drain_from_start(rb, until) ==
    [rb EXCEPT !.head = until, !.len = rb.len - until]

\* Drain::to_end: the Drain of [starting_from, len)
drain_to_end(rb, starting_from) ==
    [rb EXCEPT !.len = rb.len - starting_from]

\* Iterator for Drain, run to the end: the elements read at front..back from
\* the head the buffer had when the Drain was made
drained(rb, prev_head, front, back) ==
    [i \in 1..(back - front) |->
        ptr_read(rb, offset_of_explicit(rb, prev_head, front + i - 1))]

\* RingBuf::drain(range) collected: range.start_bound() is lower and
\* range.end_bound() is upper, <<>> for Unbounded, <<start>> for
\* Included(start) and <<end>> for Excluded(end); ret is what the iterator
\* yields
RingBuf_drain(rb, lower, upper) ==
    IF lower # <<>> /\ ~(lower[1] < rb.len) THEN RbResult(rb, <<>>, TRUE)
    ELSE IF upper # <<>> /\ ~(upper[1] <= rb.len) THEN RbResult(rb, <<>>, TRUE)
    ELSE IF lower # <<>>
    THEN IF upper # <<>>
         THEN RbResult(rb, <<>>, TRUE)
         ELSE RbResult(drain_to_end(rb, lower[1]),
                       drained(rb, rb.head, lower[1], rb.len), FALSE)
    ELSE LET until == IF upper # <<>> THEN upper[1] ELSE rb.len IN
         RbResult(drain_from_start(rb, until),
                  drained(rb, rb.head, 0, until), FALSE)

----------------------------------------------------------------------------
(* StreamInboundState (stream/inbound.rs) and the readout operations of
   Stream (parse-tcp/src/stream.rs) that act on it *)

InNew(initial_window_limit) ==
    [buffer |-> RbNew, buffer_offset |-> 0, received |-> EmptyMap,
     window_limit |-> initial_window_limit, final_offset |-> <<>>]

\* an inbound operation returns the state it leaves, its result and whether it
\* panicked; a panic leaves the state as it was found
InResult(st, ret, panicked) == [st |-> st, ret |-> ret, panicked |-> panicked]

\* the copy loop replaced by one copy of the whole buffered part of the segment
copy_whole_segment(buffer, buffer_offset, offset, data, todo) ==
    LET skip == IF offset < buffer_offset THEN buffer_offset - offset ELSE 0
        slice == SubSeq(data, skip + 1, Len(data))
        buffer_index == offset + skip - buffer_offset
    IN  IF slice = <<>>
        THEN [buffer |-> buffer, panicked |-> FALSE]
        ELSE [buffer |-> copy_from_slice(buffer, buffer_index,
                                         buffer_index + Len(slice), slice),
              panicked |-> FALSE]

RECURSIVE copy_new_ranges(_, _, _, _, _)
\* the copy loop of receive_segment over the ranges in todo
copy_new_ranges(buffer, buffer_offset, offset, data, todo) ==
    IF todo = <<>>
    THEN [buffer |-> buffer, panicked |-> FALSE]
    ELSE LET to_copy == Head(todo)
             len == to_copy.end - to_copy.start
         IN  IF to_copy.start < buffer_offset
             THEN [buffer |-> buffer, panicked |-> TRUE]
             ELSE LET buffer_index == to_copy.start - buffer_offset
                      slice_start == to_copy.start - offset
                      data_slice == SubSeq(data, slice_start + 1, slice_start + len)
                  IN  IF check_range_fails(buffer, Rng(buffer_index, buffer_index + len))
                      THEN [buffer |-> buffer, panicked |-> TRUE]
                      ELSE copy_new_ranges(
                               copy_from_slice(buffer, buffer_index,
                                               buffer_index + len, data_slice),
                               buffer_offset, offset, data, Tail(todo))

\* has_range with the end of the range required to lie strictly inside
has_range_strict_end(map, range) ==
    LET below == {k \in DOMAIN map : k <= range.start} IN
    below # {} /\ SetMax(below) + map[SetMax(below)] > range.end

\* is the segment already received: received.has_range(segment)
segment_received(map, segment) == has_range(map, segment)

receive_segment(st, offset, data, grown) ==
    LET tail == offset + Len(data)
        segment == Rng(offset, tail)
    IN
    IF tail > st.window_limit THEN InResult(st, "ExceedsWindow", FALSE)
    ELSE IF segment_received(st.received, segment) THEN InResult(st, "Duplicate", FALSE)
    ELSE IF tail < st.buffer_offset THEN InResult(st, "Panic", TRUE)
    ELSE
        LET buffer_end == tail - st.buffer_offset
            filled == IF buffer_end > st.buffer.len
                      THEN fill_at_back(st.buffer, buffer_end - st.buffer.len, 0, grown)
                      ELSE st.buffer
            copied == copy_new_ranges(filled, st.buffer_offset, offset, data,
                                      range_complement(st.received, segment))
        IN  IF copied.panicked \/ InsertPanics(segment)
            THEN InResult(st, "Panic", TRUE)
            ELSE InResult([st EXCEPT
                              !.buffer = copied.buffer,
                              !.received = insert_range(st.received, UsizeMax, segment).map],
                          "Received", FALSE)

\* the capacities the Vec of the buffer may end with after receive_segment
ReceiveCapacities(st, offset, data) ==
    LET tail == offset + Len(data)
        buffer_end == tail - st.buffer_offset
    IN  IF tail <= st.window_limit /\ buffer_end > capacity(st.buffer)
        THEN {c \in 0..MaxBufCapacity : c >= buffer_end}
        ELSE {capacity(st.buffer)}

\* new_limit - buffer_offset overflows when new_limit < buffer_offset: a panic
\* with overflow checks, and without them a difference above isize::MAX
set_limit(st, new_limit) ==
    IF ~(new_limit >= st.window_limit) \/ new_limit < st.buffer_offset
       \/ new_limit - st.buffer_offset > IsizeMax
    THEN InResult(st, "Panic", TRUE)
    ELSE InResult([st EXCEPT !.window_limit = new_limit], "Ok", FALSE)

set_final_offset(st, offset) ==
    IF st.final_offset # <<>>
    THEN InResult(st, "false", FALSE)
    ELSE InResult([st EXCEPT !.final_offset = <<offset>>], "true", FALSE)

\* advance_buffer without its last statement
mark_prior_skipped(received, new_base) == received

\* the last statement of advance_buffer
mark_prior_received(received, new_base) ==
    insert_range(received, UsizeMax, Rng(0, new_base)).map

advance_buffer(st, new_base) ==
    IF new_base < st.buffer_offset THEN InResult(st, "Panic", TRUE)
    ELSE LET delta == new_base - st.buffer_offset IN
         IF delta = 0 THEN InResult(st, "Ok", FALSE)
         ELSE InResult([st EXCEPT
                           !.buffer = IF st.buffer.len < delta
                                      THEN clear(st.buffer)
                                      ELSE drain_from_start(st.buffer, delta),
                           !.buffer_offset = st.buffer_offset + delta,
                           !.received = mark_prior_received(st.received, new_base)],
                       "Ok", FALSE)

\* RangeSet::peek_first: the range of the smallest key; the map is not empty
peek_first(map) ==
    LET start == SetMin(DOMAIN map) IN Rng(start, start + map[start])

read_segment_available(st, segment) ==
    /\ has_range(st.received, segment)
    /\ segment.start >= st.buffer_offset
    /\ segment.end - st.buffer_offset <= st.buffer.len

\* Stream::read_buffer_until: "None", or "Some" with the range marked received
\* StreamInboundState::finished
finished(st, is_reliable) ==
    IF st.final_offset # <<>>
    THEN IF ~is_reliable THEN TRUE
         ELSE IF DOMAIN st.received # {}
              THEN peek_first(st.received).end >= st.final_offset[1]
              ELSE FALSE
    ELSE FALSE

\* a read_buffer_until that consumes what it reads
read_buffer_until_consuming(st, end_offset) ==
    LET start_offset == st.buffer_offset IN
    IF end_offset < start_offset THEN InResult(st, "None", FALSE)
    ELSE IF end_offset = start_offset THEN InResult(st, "None", FALSE)
    ELSE IF end_offset - start_offset > st.buffer.len THEN InResult(st, "None", FALSE)
    ELSE InResult(advance_buffer(st, end_offset).st, "Some", FALSE)

read_buffer_until(st, end_offset) ==
    LET start_offset == st.buffer_offset IN
    IF end_offset < start_offset THEN InResult(st, "None", FALSE)
    ELSE IF end_offset = start_offset THEN InResult(st, "None", FALSE)
    ELSE IF end_offset - start_offset > st.buffer.len THEN InResult(st, "None", FALSE)
    ELSE LET marked == [st EXCEPT !.received =
                 insert_range(st.received, UsizeMax, Rng(start_offset, end_offset)).map]
         IN  IF read_segment_available(marked, Rng(start_offset, end_offset))
             THEN InResult(marked, "Some", FALSE)
             ELSE InResult(st, "Panic", TRUE)

consume_until(st, end_offset) == advance_buffer(st, end_offset)

\* the byte the buffer holds for stream offset o
ByteAt(st, o) == ptr_read(st.buffer, offset_of(st.buffer, o - st.buffer_offset))
\* the stream offsets the buffer holds a byte for
Buffered(st) == {o \in 0..MaxLimit :
                    st.buffer_offset <= o /\ o < st.buffer_offset + st.buffer.len}

InNoCall == [op |-> "new", offset |-> 0, data |-> <<>>, ret |-> "Ok",
             panicked |-> FALSE, repeat |-> FALSE]

\* the inbound variables of a specification that does not use them
InIdle ==
    /\ inb = InNew(0)
    /\ in_last = InNoCall

----------------------------------------------------------------------------
(* Stream (parse-tcp/src/stream.rs): sequence numbers to stream offsets.
   Sequence numbers are SeqBits wide instead of 32 bits, and the window
   constants keep their proportion to the sequence space. *)

\* 2^32, the size of the sequence space
SeqSpace == 2 ^ SeqBits
\* 1024 << 20 == 2^30
SEQ_WINDOW_SIZE == SeqSpace \div 4
\* 512 << 20 == 2^29
SEQ_WINDOW_ADVANCE_THRESHOLD == SeqSpace \div 8
\* 256 << 20 == 2^28
SEQ_WINDOW_ADVANCE_BY == SeqSpace \div 16

wrapping_add(a, b) == (a + b) % SeqSpace
wrapping_sub(a, b) == (a - b + SeqSpace) % SeqSpace

Initial(isn) == [kind |-> "Initial", value |-> isn]
Subsequent(offset) == [kind |-> "Subsequent", value |-> offset]

\* the sequence fields of Stream::new()
StreamNew ==
    [initial_sequence_number |-> 0, seq_offset |-> Initial(0),
     seq_window_start |-> 0, seq_window_end |-> 0]

\* the sequence fields set by set_isn
set_isn(s, isn) ==
    [s EXCEPT !.initial_sequence_number = isn,
              !.seq_offset = Initial(isn),
              !.seq_window_start = isn,
              !.seq_window_end = wrapping_add(isn, SEQ_WINDOW_SIZE)]

\* debug_assert!(number >= *isn) of compute_absolute
compute_absolute_fails(seq_offset, number) ==
    debug_assertions /\ seq_offset.kind = "Initial" /\ ~(number >= seq_offset.value)

\* without debug assertions number - isn wraps
compute_absolute(seq_offset, number) ==
    IF seq_offset.kind = "Initial"
    THEN wrapping_sub(number, seq_offset.value)
    ELSE number + seq_offset.value

\* the rollover offset that keeps the offset of the current epoch
rollover_offset_kept(seq_offset) ==
    IF seq_offset.kind = "Initial" THEN Subsequent(0) ELSE seq_offset

rollover_offset(seq_offset) ==
    IF seq_offset.kind = "Initial"
    THEN Subsequent(SeqSpace - seq_offset.value)
    ELSE Subsequent(seq_offset.value + SeqSpace)

\* update_offset returns the stream it leaves, Some(offset) as <<offset>> or
\* None as <<>>, and whether it panicked
OffsetResult(s, seq_offset, number) ==
    IF compute_absolute_fails(seq_offset, number)
    THEN [s |-> s, ret |-> <<>>, panicked |-> TRUE]
    ELSE [s |-> s, ret |-> <<compute_absolute(seq_offset, number)>>, panicked |-> FALSE]

\* the window moved so that it starts SEQ_WINDOW_ADVANCE_THRESHOLD below number
advance_window_by_threshold(s, number) ==
    LET start == wrapping_sub(number, SEQ_WINDOW_ADVANCE_THRESHOLD) IN
    [s EXCEPT !.seq_window_start = start,
              !.seq_window_end = wrapping_add(start, SEQ_WINDOW_SIZE)]

\* the window moved so that it starts SEQ_WINDOW_ADVANCE_BY below number
advance_window(s, number) ==
    LET start == wrapping_sub(number, SEQ_WINDOW_ADVANCE_BY) IN
    [s EXCEPT !.seq_window_start = start,
              !.seq_window_end = wrapping_add(start, SEQ_WINDOW_SIZE)]

update_offset(s, number, should_advance) ==
    IF s.seq_window_start < s.seq_window_end
    THEN IF ~(number >= s.seq_window_start /\ number < s.seq_window_end)
         THEN [s |-> s, ret |-> <<>>, panicked |-> FALSE]
         ELSE IF should_advance
                 /\ number - s.seq_window_start > SEQ_WINDOW_ADVANCE_THRESHOLD
              THEN OffsetResult(advance_window(s, number), s.seq_offset, number)
              ELSE OffsetResult(s, s.seq_offset, number)
    ELSE IF number < s.seq_window_start /\ number >= s.seq_window_end
    THEN [s |-> s, ret |-> <<>>, panicked |-> FALSE]
    ELSE IF number >= s.seq_window_start
    THEN IF should_advance
            /\ number - s.seq_window_start > SEQ_WINDOW_ADVANCE_THRESHOLD
         THEN OffsetResult(advance_window(s, number), s.seq_offset, number)
         ELSE OffsetResult(s, s.seq_offset, number)
    ELSE LET bytes_from_start == wrapping_sub(number, s.seq_window_start)
             rollover == rollover_offset(s.seq_offset)
         IN  IF should_advance /\ bytes_from_start > SEQ_WINDOW_ADVANCE_THRESHOLD
             THEN LET moved == advance_window(s, number) IN
                  IF moved.seq_window_start < moved.seq_window_end
                  THEN OffsetResult([moved EXCEPT !.seq_offset = rollover],
                                    rollover, number)
                  ELSE OffsetResult(moved, rollover, number)
             ELSE OffsetResult(s, rollover, number)

SqNoCall == [op |-> "new", number |-> 0, should_advance |-> TRUE, ret |-> <<>>,
             panicked |-> FALSE, fed_before |-> 0]

\* the sequence variables of a specification that does not use them
SqIdle ==
    /\ strm = StreamNew
    /\ sq_fed = 0
    /\ sq_last = SqNoCall

----------------------------------------------------------------------------
(* Stream (parse-tcp/src/stream.rs): one direction of a connection.  The
   sequence fields are the record `seq` (see StreamNew), the inbound state is
   the record `state`. *)

\* SegmentType
Data(len, is_retransmit) ==
    [type |-> "Data", len |-> len, is_retransmit |-> is_retransmit,
     window |-> 0, end_offset |-> 0]
Ack(window) ==
    [type |-> "Ack", len |-> 0, is_retransmit |-> FALSE,
     window |-> window, end_offset |-> 0]
Fin(end_offset) ==
    [type |-> "Fin", len |-> 0, is_retransmit |-> FALSE,
     window |-> 0, end_offset |-> end_offset]
Rst ==
    [type |-> "Rst", len |-> 0, is_retransmit |-> FALSE,
     window |-> 0, end_offset |-> 0]

\* `extra` is the same PacketExtra::None for every packet and is left out
\* an entry that carries no acknowledgment of the reverse direction
SegmentInfo_unstamped(offset, reverse_acked, data) ==
    [offset |-> offset, reverse_acked |-> 0, data |-> data]

SegmentInfo(offset, reverse_acked, data) ==
    [offset |-> offset, reverse_acked |-> reverse_acked, data |-> data]

\* BinaryHeap<SegmentInfo> as the bag of its entries: entry -> number of copies
BinaryHeap_new == [e \in {} |-> 0]

RECURSIVE heap_len(_)
heap_len(heap) ==
    IF DOMAIN heap = {} THEN 0
    ELSE LET e == CHOOSE x \in DOMAIN heap : TRUE IN
         heap[e] + heap_len(MapRemove(heap, e))

heap_push(heap, e) ==
    IF e \in DOMAIN heap THEN [heap EXCEPT ![e] = @ + 1] ELSE MapInsert(heap, e, 1)

heap_remove(heap, e) ==
    IF heap[e] = 1 THEN MapRemove(heap, e) ELSE [heap EXCEPT ![e] = @ - 1]

\* SegmentInfo compared by offset and then reverse_acked, not reversed
cmp_natural(self, other) ==
    IF self.offset < other.offset THEN "Less"
    ELSE IF self.offset = other.offset
    THEN IF self.reverse_acked < other.reverse_acked THEN "Less"
         ELSE IF self.reverse_acked = other.reverse_acked THEN "Equal"
         ELSE "Greater"
    ELSE "Greater"

\* impl Ord for SegmentInfo
cmp(self, other) ==
    IF self.offset < other.offset THEN "Greater"
    ELSE IF self.offset = other.offset
    THEN IF self.reverse_acked < other.reverse_acked THEN "Greater"
         ELSE IF self.reverse_acked = other.reverse_acked THEN "Equal"
         ELSE "Less"
    ELSE "Less"

\* the entries BinaryHeap::peek and pop may give: one that no entry is
\* greater than
heap_peek(heap) ==
    {e \in DOMAIN heap : \A o \in DOMAIN heap : cmp(e, o) # "Less"}

Stream_new ==
    [seq |-> StreamNew, window_scale |-> 0, got_window_scale |-> FALSE,
     state |-> InNew(0), highest_acked |-> 0, reverse_acked |-> 0,
     had_reset |-> FALSE, has_ended |-> FALSE, retransmit_count |-> 0,
     segments_info |-> BinaryHeap_new, segments_info_dropped |-> 0,
     gaps_length |-> 0]

\* A Stream operation returns the stream it leaves, its return value, whether
\* it panicked, and the SegmentInfo it gave to add_segment_info (<<>> if none).
StResult(st, ret, panicked, info) ==
    [st |-> st, ret |-> ret, panicked |-> panicked, info |-> info]

set_window_scale(st, window_scale) ==
    IF window_scale > MAX_WINDOW_SCALE
    THEN StResult(st, FALSE, FALSE, <<>>)
    ELSE StResult([st EXCEPT !.window_scale = window_scale,
                             !.got_window_scale = TRUE],
                  TRUE, FALSE, <<>>)

\* x << n in u64
shl64(x, n) == (x * (2 ^ n)) % U64Space

RECURSIVE estimate_loop(_, _, _, _, _)
\* the loop of estimate_window_scale
estimate_loop(st, unscaled, try_scale, new_limit, fit_end_offset) ==
    IF try_scale >= MAX_WINDOW_SCALE
    THEN [st |-> st, ret |-> FALSE, panicked |-> FALSE]
    ELSE IF new_limit < fit_end_offset
    THEN LET sum == st.highest_acked + shl64(unscaled, try_scale + 1) IN
         IF debug_assertions /\ sum >= U64Space
         THEN [st |-> st, ret |-> FALSE, panicked |-> TRUE]
         ELSE estimate_loop(st, unscaled, try_scale + 1, sum % U64Space,
                            fit_end_offset)
    ELSE LET lim == set_limit(st.state, new_limit) IN
         [st |-> [st EXCEPT !.window_scale = try_scale, !.state = lim.st],
          ret |-> TRUE, panicked |-> lim.panicked]

\* with overflow checks window_limit - highest_acked and the sums panic when
\* they overflow, without them they wrap
estimate_window_scale(st, fit_end_offset) ==
    IF debug_assertions
       /\ (~(fit_end_offset > st.state.window_limit)
           \/ st.highest_acked > st.state.window_limit)
    THEN [st |-> st, ret |-> FALSE, panicked |-> TRUE]
    ELSE LET window_available ==
                 (st.state.window_limit - st.highest_acked + U64Space) % U64Space
         IN
         IF window_available < MIN_ESTIMATE_WINDOW
         THEN [st |-> st, ret |-> FALSE, panicked |-> FALSE]
         ELSE LET unscaled == window_available \div (2 ^ st.window_scale)
                  sum == st.highest_acked + shl64(unscaled, st.window_scale)
              IN  IF unscaled = 0
                  THEN [st |-> st, ret |-> FALSE, panicked |-> FALSE]
                  ELSE IF debug_assertions /\ sum >= U64Space
                  THEN [st |-> st, ret |-> FALSE, panicked |-> TRUE]
                  ELSE estimate_loop(st, unscaled, st.window_scale,
                                     sum % U64Space, fit_end_offset)

\* Stream::set_isn: the sequence fields by set_isn, then the window limit
Stream_set_isn(st, isn, window_size) ==
    LET scaled == window_size * (2 ^ st.window_scale)
        lim == IF scaled < MAX_ALLOWED_BUFFER_SIZE
               THEN set_limit(st.state, scaled)
               ELSE set_limit(st.state, MAX_ALLOWED_BUFFER_SIZE)
    IN  StResult([st EXCEPT !.seq = set_isn(st.seq, isn), !.state = lim.st],
                 TRUE, lim.panicked, <<>>)

add_segment_info_inclusive(st, info) ==
    IF heap_len(st.segments_info) <= MAX_SEGMENTS_INFO_COUNT
    THEN [st EXCEPT !.segments_info = heap_push(@, info)]
    ELSE [st EXCEPT !.segments_info_dropped = @ + 1]

add_segment_info(st, info) ==
    IF heap_len(st.segments_info) < MAX_SEGMENTS_INFO_COUNT
    THEN [st EXCEPT !.segments_info = heap_push(@, info)]
    ELSE [st EXCEPT !.segments_info_dropped = @ + 1]

\* the state field replaced by the result of an inbound operation
with_state(st, res) == [st EXCEPT !.state = res.st]

\* handle_data_packet, lines 256-293: the window limit raised for a packet
\* that ends beyond it, or the packet cut or dropped when the buffer would
\* exceed MAX_ALLOWED_BUFFER_SIZE.  packet_end_offset - buffer_offset
\* overflows when the packet ends before the buffer: a panic with overflow
\* checks, and without them a huge difference, by which max_len exceeds
\* data.len() and &data[..max_len] panics.
fit_window(st, offset, data) ==
    LET packet_end_offset == offset + Len(data)
        keep(s, d) == [st |-> s, data |-> d, dropped |-> FALSE, panicked |-> FALSE]
        limited(lim) == [st |-> with_state(st, lim), data |-> data,
                         dropped |-> FALSE, panicked |-> lim.panicked]
    IN
    IF ~(packet_end_offset > st.state.window_limit) THEN keep(st, data)
    ELSE IF packet_end_offset < st.state.buffer_offset
    THEN [st |-> st, data |-> data, dropped |-> FALSE, panicked |-> TRUE]
    ELSE IF packet_end_offset - st.state.buffer_offset < MAX_ALLOWED_BUFFER_SIZE
    THEN IF ~st.got_window_scale
         THEN The({
              IF est.panicked
              THEN [st |-> st, data |-> data, dropped |-> FALSE, panicked |-> TRUE]
              ELSE IF est.ret
              THEN [st |-> est.st, data |-> data, dropped |-> FALSE,
                    panicked |-> debug_assertions
                                 /\ ~(est.st.state.window_limit >= packet_end_offset)]
              ELSE limited(set_limit(st.state, packet_end_offset))
              : est \in {estimate_window_scale(st, packet_end_offset)}})
         ELSE limited(set_limit(st.state, packet_end_offset))
    ELSE LET max_offset == st.state.buffer_offset + MAX_ALLOWED_BUFFER_SIZE
             max_len == IF max_offset > offset THEN max_offset - offset ELSE 0
         IN  IF max_len > 0
             THEN keep(st, SubSeq(data, 1, max_len))
             ELSE [st |-> st, data |-> data, dropped |-> TRUE, panicked |-> FALSE]

\* slack: the slots the Vec of the buffer allocates beyond those asked for
handle_data_packet(st, sequence_number, data, slack) ==
    The({
    IF upd.panicked THEN StResult(st, FALSE, TRUE, <<>>)
    ELSE IF upd.ret = <<>> THEN StResult(st, FALSE, FALSE, <<>>)
    ELSE
    LET offset == upd.ret[1] IN
    The({
    IF fit.panicked THEN StResult(st, FALSE, TRUE, <<>>)
    ELSE IF fit.dropped THEN StResult(fit.st, FALSE, FALSE, <<>>)
    ELSE
    LET buffer_end == offset + Len(fit.data) - fit.st.state.buffer_offset
        grown == IF buffer_end > capacity(fit.st.state.buffer)
                 THEN buffer_end + slack
                 ELSE capacity(fit.st.state.buffer)
    IN
    The({
    IF rcv.panicked \/ rcv.ret = "ExceedsWindow"
    THEN StResult(st, FALSE, TRUE, <<>>)
    ELSE LET is_retransmit == rcv.ret = "Duplicate"
             counted == [with_state(fit.st, rcv) EXCEPT
                            !.retransmit_count =
                                IF is_retransmit THEN @ + 1 ELSE @]
             info == SegmentInfo(offset, st.reverse_acked,
                                 Data(Len(fit.data), is_retransmit))
         IN  StResult(add_segment_info(counted, info), ~is_retransmit, FALSE,
                      <<info>>)
    : rcv \in {receive_segment(fit.st.state, offset, fit.data, grown)}})
    : fit \in {fit_window([st EXCEPT !.seq = upd.s], offset, data)}})
    : upd \in {update_offset(st.seq, sequence_number, TRUE)}})

\* handle_ack_packet, lines 365-397.  limit - buffer_offset overflows when
\* limit < buffer_offset: a panic with overflow checks, and without them a
\* difference above MAX_ALLOWED_BUFFER_SIZE.  (window_size as u32) <<
\* window_scale loses no bit for a window scale of at most 14.
ack_limit(st, limit) ==
    IF ~(limit > st.state.window_limit) THEN InResult(st.state, "Ok", FALSE)
    ELSE IF limit < st.state.buffer_offset
    THEN IF debug_assertions THEN InResult(st.state, "Panic", TRUE)
         ELSE set_limit(st.state, st.state.buffer_offset + MAX_ALLOWED_BUFFER_SIZE)
    ELSE IF limit - st.state.buffer_offset > MAX_ALLOWED_BUFFER_SIZE
    THEN set_limit(st.state, st.state.buffer_offset + MAX_ALLOWED_BUFFER_SIZE)
    ELSE set_limit(st.state, limit)

handle_ack_packet(st, acknowledgment_number, window_size) ==
    The({
    IF upd.panicked THEN StResult(st, FALSE, TRUE, <<>>)
    ELSE IF upd.ret = <<>> THEN StResult(st, FALSE, FALSE, <<>>)
    ELSE
    LET offset == upd.ret[1]
        acked == [st EXCEPT !.seq = upd.s,
                            !.highest_acked = IF offset > @ THEN offset ELSE @]
        ended == IF acked.state.final_offset # <<>>
                    /\ acked.highest_acked > acked.state.final_offset[1]
                 THEN [acked EXCEPT !.has_ended = TRUE]
                 ELSE acked
        real_window == window_size * (2 ^ st.window_scale)
        info == SegmentInfo(offset, st.reverse_acked, Ack(real_window))
    IN  The({
        IF lim.panicked THEN StResult(st, FALSE, TRUE, <<>>)
        ELSE StResult(add_segment_info(with_state(ended, lim), info), TRUE,
                      FALSE, <<info>>)
        : lim \in {ack_limit(ended, offset + real_window)}})
    : upd \in {update_offset(st.seq, acknowledgment_number, TRUE)}})

handle_fin_packet(st, sequence_number, data_len) ==
    The({
    IF upd.panicked THEN StResult(st, FALSE, TRUE, <<>>)
    ELSE IF upd.ret = <<>> THEN StResult(st, FALSE, FALSE, <<>>)
    ELSE
    LET offset == upd.ret[1]
        fin_offset == offset + data_len
        moved == [st EXCEPT !.seq = upd.s]
        final == IF moved.state.final_offset = <<>>
                 THEN with_state(moved, set_final_offset(moved.state, fin_offset))
                 ELSE moved
        info == SegmentInfo(offset, st.reverse_acked, Fin(fin_offset))
    IN  StResult(add_segment_info(final, info), TRUE, FALSE, <<info>>)
    : upd \in {update_offset(st.seq, sequence_number, TRUE)}})

RECURSIVE pop_segments_until(_, _, _)
\* the results pop_segments_until may have, each the heap left and the Vec
\* in_segments with the popped entries appended: entries that compare Equal
\* leave the heap in an order the code does not fix
pop_segments_until(heap, end_offset, in_segments) ==
    IF DOMAIN heap = {}
    THEN {[heap |-> heap, in_segments |-> in_segments]}
    ELSE UNION {
            IF end_offset # <<>> /\ info_peek.offset >= end_offset[1]
            THEN {[heap |-> heap, in_segments |-> in_segments]}
            ELSE pop_segments_until(heap_remove(heap, info_peek), end_offset,
                                    Append(in_segments, info_peek))
            : info_peek \in heap_peek(heap)}

\* Stream::read_buffer_until and Stream::consume_until on the state field
Stream_read_buffer_until(st, end_offset) ==
    LET res == read_buffer_until(st.state, end_offset) IN
    StResult(with_state(st, res), res.ret, res.panicked, <<>>)

Stream_consume_until(st, end_offset) ==
    LET res == consume_until(st.state, end_offset) IN
    StResult(with_state(st, res), res.ret, res.panicked, <<>>)

RECURSIVE gaps_total(_)
\* the sum of gap.end - gap.start over the gaps
gaps_total(gaps) ==
    IF gaps = <<>> THEN 0
    ELSE Head(gaps).end - Head(gaps).start + gaps_total(Tail(gaps))

\* Stream::read_gaps_until: the gaps of buffer_offset..end_offset are pushed
\* to in_gaps (the value returned here) and counted in gaps_length
read_gaps_until(st, end_offset, in_gaps) ==
    LET range == Rng(st.state.buffer_offset, end_offset) IN
    IF iter_range_panics(st.state.received, range)
    THEN StResult(st, in_gaps, TRUE, <<>>)
    ELSE LET gaps == range_complement(st.state.received, range) IN
         StResult([st EXCEPT !.gaps_length = @ + gaps_total(gaps)],
                  in_gaps \o gaps, FALSE, <<>>)

\* StreamInboundState::max_contiguous_offset: the end of the first received
\* range, if any
max_contiguous_offset(st) ==
    IF DOMAIN st.received = {} THEN <<>> ELSE <<peek_first(st.received).end>>

\* Stream::readable_buffered_length
readable_buffered_length(st) ==
    LET highest_readable == max_contiguous_offset(st.state) IN
    IF highest_readable # <<>>
    THEN highest_readable[1] - st.state.buffer_offset
    ELSE 0

StNoCall == [op |-> "new", offset |-> <<>>, len |-> 0, ret |-> TRUE,
             panicked |-> FALSE, info |-> <<>>, popped |-> <<>>, calls |-> 0]

\* the Stream variables of a specification that does not use them
StIdle ==
    /\ stm = Stream_new
    /\ st_last = StNoCall

\* how far forward and how far back a reset may lie (16 << 20 and 256 << 10),
\* scaled like MAX_ALLOWED_BUFFER_SIZE
RESET_MAX_LOOKAHEAD == 2
RESET_MAX_LOOKBEHIND == 1

\* handle_rst_packet: saturating_sub and saturating_add of u64
handle_rst_packet(st, sequence_number) ==
    LET upd == update_offset(st.seq, sequence_number, FALSE) IN
    IF upd.panicked THEN StResult(st, FALSE, TRUE, <<>>)
    ELSE IF upd.ret = <<>> THEN StResult(st, FALSE, FALSE, <<>>)
    ELSE
    LET offset == upd.ret[1]
        moved == [st EXCEPT !.seq = upd.s]
        low == IF st.highest_acked > RESET_MAX_LOOKBEHIND
               THEN st.highest_acked - RESET_MAX_LOOKBEHIND ELSE 0
        high == IF st.highest_acked + RESET_MAX_LOOKAHEAD >= U64Space
                THEN U64Space - 1 ELSE st.highest_acked + RESET_MAX_LOOKAHEAD
        info == SegmentInfo(offset, st.reverse_acked, Rst)
    IN  IF offset >= low /\ offset < high
        THEN StResult(add_segment_info(moved, info), TRUE, FALSE, <<info>>)
        ELSE StResult(moved, FALSE, FALSE, <<>>)

\* in_range_wrapping returns <<bool>>, or <<>> when it panics
in_range_wrapping(base, before, after, value) ==
    LET begin == wrapping_sub(base, before)
        begin_wrap == base < before
        end == wrapping_add(base, after)
        end_wrap == base + after >= SeqSpace
    IN  IF begin_wrap /\ end_wrap THEN <<>>
        ELSE IF begin <= end THEN <<begin <= value /\ value <= end>>
        ELSE <<begin <= value \/ value <= end>>

----------------------------------------------------------------------------
(* Flow (parse-tcp/src/flow_table.rs): the tuple of a connection.  An
   address is a number, ordered as IpAddr is. *)

IPPROTO_TCP == 6
IPPROTO_UDP == 17

Flow(proto, src_addr, src_port, dst_addr, dst_port) ==
    [proto |-> proto, src_addr |-> src_addr, src_port |-> src_port,
     dst_addr |-> dst_addr, dst_port |-> dst_port]

reversed(self) ==
    Flow(self.proto, self.dst_addr, self.dst_port, self.src_addr, self.src_port)

compare(self, other) ==
    IF self.proto # other.proto THEN "None"
    ELSE IF self.src_addr = other.src_addr /\ self.dst_addr = other.dst_addr
            /\ self.src_port = other.src_port /\ self.dst_port = other.dst_port
    THEN "Forward"
    ELSE IF self.src_addr = other.dst_addr /\ self.dst_addr = other.src_addr
            /\ self.src_port = other.dst_port /\ self.dst_port = other.src_port
    THEN "Reverse"
    ELSE "None"

\* impl From<&TcpMeta> for Flow
Flow_from(value) ==
    Flow(IPPROTO_TCP, value.src_addr, value.src_port, value.dst_addr,
         value.dst_port)

compare_tcp_meta(self, other) == compare(self, Flow_from(other))

\* impl PartialEq for Flow
eq(self, other) == compare(self, other) # "None"

\* a hash that feeds the fields in the order they are stored
hash_ordered(self) ==
    <<self.proto, self.src_addr, self.dst_addr, self.src_port, self.dst_port>>

\* impl Hash for Flow: the values fed to the hasher, in order
hash(self) ==
    <<self.proto>>
    \o (IF self.src_addr <= self.dst_addr
        THEN <<self.src_addr, self.dst_addr>>
        ELSE <<self.dst_addr, self.src_addr>>)
    \o (IF self.src_port <= self.dst_port
        THEN <<self.src_port, self.dst_port>>
        ELSE <<self.dst_port, self.src_port>>)

\* HashMap<Flow, V> as the set of its entries [hash, key, value], hash being
\* the hash the key had when it was inserted; a lookup finds the entries
\* stored under the hash of k whose key is equal to k
HashMap_find(map, k) == {e \in map : e.hash = hash(k) /\ eq(e.key, k)}

\* HashMap::get: Some(value) as <<value>>, None as <<>>
HashMap_get(map, k) ==
    IF HashMap_find(map, k) = {} THEN <<>>
    ELSE <<(CHOOSE e \in HashMap_find(map, k) : TRUE).value>>

\* HashMap::insert: an entry with an equal key keeps its key and gets the value
HashMap_insert(map, k, v) ==
    IF HashMap_find(map, k) = {}
    THEN map \cup {[hash |-> hash(k), key |-> k, value |-> v]}
    ELSE LET old == CHOOSE e \in HashMap_find(map, k) : TRUE IN
         (map \ {old}) \cup {[old EXCEPT !.value = v]}

HashMap_remove(map, k) ==
    IF HashMap_find(map, k) = {} THEN map
    ELSE map \ {CHOOSE e \in HashMap_find(map, k) : TRUE}

FlNoCall == [op |-> "new", key |-> <<>>, hash |-> <<>>, equal |-> {},
             found |-> <<>>]

\* the Flow variables of a specification that does not use them
FlIdle ==
    /\ flow_map = {}
    /\ fl_last = FlNoCall

----------------------------------------------------------------------------
(* Connection (parse-tcp/src/connection.rs).  The handler records the
   callbacks it gets: event_handler is Some(handler) from Connection::new on,
   and is modelled as the sequence of the handler's callbacks.  uuid is left
   out.  The Vec of a stream buffer allocates exactly the slots asked for. *)

\* TcpFlags
TcpFlags(syn, ack, fin, rst) == [syn |-> syn, ack |-> ack, fin |-> fin, rst |-> rst]

\* TcpMeta; option_window_scale is <<>> or <<scale>>
TcpMeta(src_addr, src_port, dst_addr, dst_port, seq_number, ack_number, flags, window, option_window_scale) ==
    [src_addr |-> src_addr, src_port |-> src_port, dst_addr |-> dst_addr,
     dst_port |-> dst_port, seq_number |-> seq_number,
     ack_number |-> ack_number, flags |-> flags, window |-> window,
     option_window_scale |-> option_window_scale]

\* ConnectionState
CsNone == [kind |-> "None"]
SynSent(seq_no) == [kind |-> "SynSent", seq_no |-> seq_no]
SynReceived(seq_no, ack_no, window_size, syn_seen) ==
    [kind |-> "SynReceived", seq_no |-> seq_no, ack_no |-> ack_no,
     window_size |-> window_size, syn_seen |-> syn_seen]
Established(forward_isn, reverse_isn) ==
    [kind |-> "Established", forward_isn |-> forward_isn,
     reverse_isn |-> reverse_isn]
Closed == [kind |-> "Closed"]
Desync == [kind |-> "Desync"]

\* the direction kept
swap_kept(dir) == dir

\* Direction::swap
swap(dir) == IF dir = "Forward" THEN "Reverse" ELSE "Forward"

\* a callback of ConnectionHandler; dir is "" for the callbacks without one
Event(name, dir) == [name |-> name, dir |-> dir]

\* Connection::new after H::new has succeeded
Connection_new(forward_flow) ==
    [forward_flow |-> forward_flow, conn_state |-> CsNone,
     observed_handshake |-> FALSE, observed_close |-> FALSE,
     forward_stream |-> Stream_new, reverse_stream |-> Stream_new,
     event_handler |-> <<>>]

call_handler(conn, event) == [conn EXCEPT !.event_handler = Append(@, event)]

\* A Connection operation returns the connection it leaves, its return value
\* and whether it panicked.
CnResult(conn, ret, panicked) == [conn |-> conn, ret |-> ret, panicked |-> panicked]

\* the window scale option of a SYN given to a stream
with_window_scale(st, meta) ==
    IF meta.option_window_scale = <<>> THEN st
    ELSE set_window_scale(st, meta.option_window_scale[1]).st

\* seq_no + 1 in u32 overflows for the largest sequence number: a panic with
\* overflow checks, 0 without them
seq_no_plus_one_overflows(seq_no) == debug_assertions /\ seq_no + 1 >= SeqSpace

handle_syn(conn, meta) ==
    LET cmp_meta == compare_tcp_meta(conn.forward_flow, meta)
        state == conn.conn_state
    IN
    IF state.kind = "None"
    THEN IF meta.flags.ack
         THEN CnResult(
                [conn EXCEPT
                    !.conn_state = SynReceived(meta.seq_number, meta.ack_number,
                                               meta.window, FALSE),
                    !.reverse_stream = with_window_scale(@, meta),
                    !.forward_flow = IF cmp_meta = "Forward" THEN reversed(@) ELSE @],
                TRUE, FALSE)
         ELSE CnResult(
                [conn EXCEPT
                    !.conn_state = SynSent(meta.seq_number),
                    !.forward_stream = with_window_scale(@, meta),
                    !.forward_flow = IF cmp_meta = "Reverse" THEN reversed(@) ELSE @],
                TRUE, FALSE)
    ELSE IF state.kind = "SynSent"
    THEN IF meta.flags.ack
         THEN IF cmp_meta # "Reverse" THEN CnResult(conn, FALSE, FALSE)
              ELSE IF seq_no_plus_one_overflows(state.seq_no)
              THEN CnResult(conn, FALSE, TRUE)
              ELSE CnResult(
                     [conn EXCEPT
                         !.conn_state = SynReceived(meta.seq_number,
                                                    meta.ack_number,
                                                    meta.window, TRUE),
                         !.reverse_stream = with_window_scale(@, meta)],
                     TRUE, FALSE)
         ELSE CnResult(conn, FALSE, FALSE)
    ELSE IF state.kind = "SynReceived" THEN CnResult(conn, FALSE, FALSE)
    ELSE IF state.kind = "Established"
    THEN IF cmp_meta = "None"
         THEN CnResult([conn EXCEPT !.conn_state = Desync], FALSE, TRUE)
         ELSE CnResult(call_handler([conn EXCEPT !.conn_state = Desync],
                                    Event("connection_desync", cmp_meta)),
                       FALSE, FALSE)
    ELSE CnResult(conn, FALSE, FALSE)

\* the end of handle_rst, lines 322-333
reset_accepted(conn, dir) ==
    LET marked == IF dir = "Forward"
                  THEN [conn EXCEPT !.forward_stream.had_reset = TRUE]
                  ELSE [conn EXCEPT !.reverse_stream.had_reset = TRUE]
    IN  CnResult(call_handler([marked EXCEPT !.conn_state = Closed,
                                             !.observed_close = TRUE],
                              Event("rst_received", dir)),
                 TRUE, FALSE)

\* handle_rst in state Established, lines 301-315, once the stream has
\* handled the reset
reset_handled(conn, dir, res) ==
    LET handled == IF dir = "Forward"
                   THEN [conn EXCEPT !.forward_stream = res.st]
                   ELSE [conn EXCEPT !.reverse_stream = res.st]
    IN  IF res.panicked THEN CnResult(conn, FALSE, TRUE)
        ELSE IF ~res.ret THEN CnResult(handled, FALSE, FALSE)
        ELSE reset_accepted(handled, dir)

handle_rst(conn, meta) ==
    LET dir == compare_tcp_meta(conn.forward_flow, meta)
        state == conn.conn_state
    IN
    IF dir = "None" THEN CnResult(conn, FALSE, TRUE)
    ELSE IF state.kind = "None" THEN reset_accepted(conn, dir)
    ELSE IF state.kind = "SynSent"
    THEN IF dir = "Forward" THEN CnResult(conn, FALSE, FALSE)
         ELSE reset_accepted(conn, dir)
    ELSE IF state.kind = "SynReceived"
    THEN LET base == IF dir = "Forward" THEN state.seq_no ELSE state.ack_no
             in_range == in_range_wrapping(base, 0, RESET_MAX_LOOKAHEAD,
                                           meta.seq_number)
         IN  IF in_range = <<>> THEN CnResult(conn, FALSE, TRUE)
             ELSE IF in_range[1] THEN reset_accepted(conn, dir)
             ELSE CnResult(conn, FALSE, FALSE)
    ELSE IF state.kind = "Established"
    THEN The({reset_handled(conn, dir, res) :
                res \in {IF dir = "Forward"
                         THEN handle_rst_packet(conn.forward_stream,
                                                meta.seq_number)
                         ELSE handle_rst_packet(conn.reverse_stream,
                                                meta.seq_number)}})
    ELSE CnResult(conn, FALSE, FALSE)

\* a stream that was not called
no_call(st) == StResult(st, FALSE, FALSE, <<>>)

\* handle_data_established, lines 476-497: the callbacks and the state, once
\* the streams have handled the data, the ACK and the FIN of the packet
streams_handled(conn, meta, dir, data_res, ack_res, fin_res) ==
    LET ack_stream == IF dir = "Forward" THEN conn.reverse_stream
                      ELSE conn.forward_stream
        got_data == data_res.ret
        got_ack == ack_res.ret
        got_fin == fin_res.ret
        ack_stream_got_end == meta.flags.ack /\ ~ack_stream.has_ended
                              /\ ack_res.st.has_ended
        data_stream_has_ended == data_res.st.has_ended
        streams == IF dir = "Forward"
                   THEN [conn EXCEPT !.forward_stream = fin_res.st,
                                     !.reverse_stream = ack_res.st]
                   ELSE [conn EXCEPT !.reverse_stream = fin_res.st,
                                     !.forward_stream = ack_res.st]
        events == (IF got_data THEN <<Event("data_received", dir)>> ELSE <<>>)
                  \o (IF got_ack THEN <<Event("ack_received", dir)>> ELSE <<>>)
                  \o (IF got_fin THEN <<Event("fin_received", dir)>> ELSE <<>>)
                  \o (IF ack_stream_got_end
                      THEN <<Event("stream_end", swap(dir))>> ELSE <<>>)
        called == [streams EXCEPT !.event_handler = @ \o events]
    IN
    IF data_res.panicked \/ ack_res.panicked \/ fin_res.panicked
    THEN CnResult(conn, FALSE, TRUE)
    ELSE CnResult(IF ack_stream_got_end /\ data_stream_has_ended
                  THEN [called EXCEPT !.conn_state = Closed,
                                      !.observed_close = TRUE]
                  ELSE called,
                  got_data \/ got_ack \/ got_fin, FALSE)

\* handle_data_established, lines 466-474, once the streams have handled the
\* data and the ACK: reverse_acked of the data stream is set (line 459)
\* before the FIN is handled
data_and_ack_handled(conn, meta, data, dir, data_res, ack_res) ==
    LET correlated == IF meta.flags.ack
                      THEN [data_res.st EXCEPT
                               !.reverse_acked = ack_res.st.highest_acked]
                      ELSE data_res.st
    IN  The({streams_handled(conn, meta, dir, data_res, ack_res, fin_res) :
                fin_res \in {IF meta.flags.fin
                             THEN handle_fin_packet(correlated, meta.seq_number,
                                                    Len(data))
                             ELSE no_call(correlated)}})

handle_data_established(conn, meta, data) ==
    LET dir == compare_tcp_meta(conn.forward_flow, meta)
        data_stream == IF dir = "Forward" THEN conn.forward_stream
                       ELSE conn.reverse_stream
        ack_stream == IF dir = "Forward" THEN conn.reverse_stream
                      ELSE conn.forward_stream
    IN
    IF dir = "None" THEN CnResult(conn, FALSE, TRUE)
    ELSE The({data_and_ack_handled(conn, meta, data, dir, data_res, ack_res) :
                data_res \in {IF data # <<>>
                              THEN handle_data_packet(data_stream,
                                                      meta.seq_number, data, 0)
                              ELSE no_call(data_stream)},
                ack_res \in {IF meta.flags.ack
                             THEN handle_ack_packet(ack_stream, meta.ack_number,
                                                    meta.window)
                             ELSE no_call(ack_stream)}})

\* the end of handle_data_hs1 and handle_data_hs2 up to handshake_done: the
\* streams get their initial sequence numbers and the handler is called
handshake_complete(conn, forward_isn, reverse_isn, forward_window, reverse_window) ==
    The({IF fwd.panicked \/ rev.panicked THEN CnResult(conn, FALSE, TRUE)
         ELSE CnResult(call_handler(
                         [conn EXCEPT
                             !.conn_state = Established(forward_isn, reverse_isn),
                             !.forward_stream = fwd.st,
                             !.reverse_stream = rev.st],
                         Event("handshake_done", "")),
                       TRUE, FALSE) :
         fwd \in {Stream_set_isn(conn.forward_stream, forward_isn,
                                 forward_window)},
         rev \in {Stream_set_isn(conn.reverse_stream, reverse_isn,
                                 reverse_window)}})

\* handle_data_hs1 up to handshake_done
handle_data_hs1(conn, meta) ==
    LET dir == compare_tcp_meta(conn.forward_flow, meta) IN
    IF dir = "None" THEN CnResult(conn, FALSE, TRUE)
    ELSE IF dir = "Forward"
    THEN handshake_complete(conn, meta.seq_number, meta.ack_number, 0, 0)
    ELSE handshake_complete(conn, meta.ack_number, meta.seq_number, 0, 0)

\* handle_data_hs2 up to handshake_done
handle_data_hs2(conn, meta) ==
    LET dir == compare_tcp_meta(conn.forward_flow, meta)
        state == conn.conn_state
        \* meta.flags.ack && meta.seq_number == ack_no, after which
        \* seq_no + 1 is computed
        compared == meta.flags.ack /\ meta.seq_number = state.ack_no
        final_ack == compared
                     /\ meta.ack_number = wrapping_add(state.seq_no, 1)
    IN
    IF state.kind # "SynReceived" \/ dir = "None"
    THEN CnResult(conn, FALSE, TRUE)
    ELSE IF dir = "Forward"
    THEN IF compared /\ seq_no_plus_one_overflows(state.seq_no)
         THEN CnResult(conn, FALSE, TRUE)
         ELSE handshake_complete(
                [conn EXCEPT !.observed_handshake =
                                 @ \/ (final_ack /\ state.syn_seen)],
                meta.seq_number, meta.ack_number, state.window_size,
                IF final_ack /\ state.syn_seen THEN meta.window ELSE 0)
    ELSE handshake_complete(conn, meta.ack_number, meta.seq_number,
                            state.window_size, 0)

\* handle_data: a packet that completes the handshake is given to
\* handle_data_established if it has data (lines 360-364 and 414-418), any
\* packet after the handshake is given to it as it is
handle_data(conn, meta, data) ==
    The({IF done.panicked \/ (done.ret /\ data = <<>>) THEN done
         ELSE handle_data_established(done.conn, meta, data) :
         done \in {IF conn.conn_state.kind \in {"None", "SynSent"}
                   THEN handle_data_hs1(conn, meta)
                   ELSE IF conn.conn_state.kind = "SynReceived"
                   THEN handle_data_hs2(conn, meta)
                   ELSE CnResult(conn, FALSE, FALSE)}})

\* Connection::handle_packet
Connection_handle_packet(conn, meta, data) ==
    IF debug_assertions /\ compare_tcp_meta(conn.forward_flow, meta) = "None"
    THEN CnResult(conn, FALSE, TRUE)
    ELSE IF meta.flags.syn THEN handle_syn(conn, meta)
    ELSE IF meta.flags.rst THEN handle_rst(conn, meta)
    ELSE handle_data(conn, meta, data)

will_retire(conn) == call_handler(conn, Event("will_retire", ""))

\* of the last call: the packet, the result, the connection state before it
\* and the number of calls so far; of the handshake fed so far: the number of
\* its packets (step, -1 once another packet has been fed), the initial
\* sequence numbers of the two sides and the bytes sent by each side
CnNoCall == [op |-> "new", meta |-> <<>>, len |-> 0, ret |-> FALSE,
             panicked |-> FALSE, before |-> CsNone, calls |-> 0, step |-> 0,
             isns |-> <<0, 0>>, sent |-> <<0, 0>>]

\* the Connection variables of a specification that does not use them
CnIdle ==
    /\ the_conn = <<>>
    /\ cn_last = CnNoCall

----------------------------------------------------------------------------
(* FlowTable (parse-tcp/src/flow_table.rs).  map is the set of the entries of
   the HashMap, retired the contents of the RingBuf in order;
   handler_init_data is the unit value and is left out.  Whether H::new
   succeeds is an input of the operations that construct a connection.  An
   operation also returns the handlers it dropped, each as the callbacks it
   had got, and the number of connections it constructed. *)

FlowTable_new == [map |-> {}, retired |-> <<>>, save_retired |-> FALSE]

FtResult(table, ret, panicked, dropped, constructed) ==
    [table |-> table, ret |-> ret, panicked |-> panicked, dropped |-> dropped,
     constructed |-> constructed]

\* the end of retire_flow and the body of the loop of close: the connection
\* is told and then saved or dropped
retire(table, connection) ==
    LET told == will_retire(connection) IN
    IF table.save_retired
    THEN [table |-> [table EXCEPT !.retired = Append(@, told)], dropped |-> <<>>]
    ELSE [table |-> table, dropped |-> <<told.event_handler>>]

\* a retire_flow that drops the connection without telling the handler
retire_flow_silent(table, flow) ==
    LET found == HashMap_get(table.map, flow) IN
    IF found = <<>> THEN [table |-> table, dropped |-> <<>>]
    ELSE [table |-> [table EXCEPT !.map = HashMap_remove(@, flow)],
          dropped |-> <<found[1].event_handler>>]

retire_flow(table, flow) ==
    LET found == HashMap_get(table.map, flow) IN
    IF found = <<>> THEN [table |-> table, dropped |-> <<>>]
    ELSE retire([table EXCEPT !.map = HashMap_remove(@, flow)], found[1])

\* a create_flow that inserts a connection even when H::new fails
create_flow_unchecked(table, flow, constructs) ==
    [table |-> [table EXCEPT !.map = HashMap_insert(@, flow, Connection_new(flow))],
     err |-> ~constructs,
     replaced |-> IF HashMap_get(table.map, flow) = <<>> THEN <<>>
                  ELSE <<HashMap_get(table.map, flow)[1].event_handler>>]

\* create_flow: err is whether H::new failed, replaced the handler of the
\* connection that HashMap::insert returned
create_flow(table, flow, constructs) ==
    IF ~constructs THEN [table |-> table, err |-> TRUE, replaced |-> <<>>]
    ELSE [table |-> [table EXCEPT
                        !.map = HashMap_insert(@, flow, Connection_new(flow))],
          err |-> FALSE,
          replaced |-> IF HashMap_get(table.map, flow) = <<>> THEN <<>>
                       ELSE <<HashMap_get(table.map, flow)[1].event_handler>>]

\* handle_packet_direct, lines 253-267, once the connection of the flow has
\* handled the packet
connection_handled(table, flow, res) ==
    LET handled == [table EXCEPT !.map = HashMap_insert(@, flow, res.conn)]
        ret == IF res.ret THEN "Ok" ELSE "Dropped"
    IN
    IF res.panicked THEN FtResult(table, "panic", TRUE, <<>>, 0)
    ELSE IF res.conn.conn_state = Closed
    THEN LET retired == retire_flow(handled, flow) IN
         FtResult(retired.table, ret, FALSE, retired.dropped, 0)
    ELSE IF res.conn.conn_state = Desync
    THEN FtResult(handled, "Desync", FALSE, <<>>, 0)
    ELSE FtResult(handled, ret, FALSE, <<>>, 0)

handle_packet_direct(table, meta, data) ==
    LET flow == Flow_from(meta)
        found == HashMap_get(table.map, flow)
    IN
    IF found = <<>> THEN FtResult(table, "NotFound", FALSE, <<>>, 0)
    ELSE The({connection_handled(table, flow, res) :
                res \in {Connection_handle_packet(found[1], meta, data)}})

\* a handle_packet that does not give the packet to the connection it made
handle_packet_once(table, meta, data, dropped) ==
    FtResult(table, "Ok(false)", FALSE, dropped, 1)

\* the second handle_packet_direct of handle_packet; unreachable!() panics
handle_packet_again(table, meta, data, dropped) ==
    The({IF res.panicked
         THEN FtResult(res.table, "panic", TRUE, dropped \o res.dropped, 1)
         ELSE IF res.ret \in {"NotFound", "Desync"}
         THEN FtResult(res.table, "unreachable", TRUE, dropped \o res.dropped, 1)
         ELSE FtResult(res.table,
                       IF res.ret = "Ok" THEN "Ok(true)" ELSE "Ok(false)",
                       FALSE, dropped \o res.dropped, 1) :
         res \in {handle_packet_direct(table, meta, data)}})

\* handle_packet, lines 219-220 and 229-233: the flow created after
\* NotFound, and retired and created after Desync; err is whether H::new
\* failed, dropped the handlers dropped
flow_created(res, meta, constructs) ==
    LET flow == Flow_from(meta)
        retired == IF res.ret = "Desync" THEN retire_flow(res.table, flow)
                   ELSE [table |-> res.table, dropped |-> <<>>]
    IN  The({[table |-> created.table, err |-> created.err,
              dropped |-> res.dropped \o retired.dropped \o created.replaced] :
             created \in {create_flow(retired.table, flow, constructs)}})

\* FlowTable::handle_packet
FlowTable_handle_packet(table, meta, data, constructs) ==
    The({IF res.panicked THEN res
         ELSE IF res.ret = "Ok"
         THEN FtResult(res.table, "Ok(true)", FALSE, res.dropped, 0)
         ELSE IF res.ret = "Dropped"
         THEN FtResult(res.table, "Ok(false)", FALSE, res.dropped, 0)
         ELSE The({IF created.err
                   THEN FtResult(created.table, "Err", FALSE, created.dropped, 0)
                   ELSE handle_packet_again(created.table, meta, data,
                                            created.dropped) :
                   created \in {flow_created(res, meta, constructs)}}) :
         res \in {handle_packet_direct(table, meta, data)}})

RECURSIVE drain(_, _)
\* the results the loop of close may have: HashMap::drain yields the entries
\* in an order the code does not fix
drain(table, dropped) ==
    IF table.map = {} THEN {FtResult(table, "()", FALSE, dropped, 0)}
    ELSE UNION {
            LET retired == retire([table EXCEPT !.map = @ \ {e}], e.value) IN
            drain(retired.table, dropped \o retired.dropped)
            : e \in table.map}

\* FlowTable::close
close(table) == drain(table, <<>>)

\* of the last call: the packet, whether H::new would succeed, the result,
\* the state of the connection of the packet before the call ("NotFound" if
\* there was none) and the number of connections the call retired; of all
\* calls: the handlers dropped, the number of connections constructed and
\* the number of calls
FtNoCall == [op |-> "new", meta |-> <<>>, constructs |-> TRUE, ret |-> "()",
             panicked |-> FALSE, before |-> "NotFound", retired |-> 0,
             dropped |-> <<>>, constructed |-> 0, calls |-> 0]

\* the FlowTable variables of a specification that does not use them
FtIdle ==
    /\ flow_table = FlowTable_new
    /\ ft_last = FtNoCall

\* the variables of the Stream, Connection, FlowTable and Flow specifications,
\* at rest in the specifications of the components they are built from
ext_vars == <<st_vars, fl_vars, cn_vars, ft_vars>>
ExtIdle == StIdle /\ FlIdle /\ CnIdle /\ FtIdle

----------------------------------------------------------------------------
(* ReplayProtection (kinesin-crypto/src/replay_protection.rs).  An element of
   the bitfield, an AtomicUsize, is the set of the positions of its bits that
   are set; a mask is such a set too. *)

\* ReplayProtection::new(size)
ReplayProtection_new(size) ==
    LET whole == size \div UsizeBits
        enough == IF size % UsizeBits > 0 THEN whole + 1 ELSE whole
        new_len == IF enough % 2 > 0 THEN enough + 1 ELSE enough
    IN  [start_offset |-> 0, tail |-> 0, bitfield |-> [e \in 1..new_len |-> {}]]

TooOld == [kind |-> "TooOld"]
TooNew == [kind |-> "TooNew"]
Found(element, mask) == [kind |-> "Found", element |-> element, mask |-> mask]

\* ReplayProtection::resolve_index; element counts from 0
resolve_index(inner, index) ==
    LET bitfield_len == Len(inner.bitfield) IN
    IF index < inner.start_offset THEN TooOld
    ELSE IF index - inner.start_offset >= bitfield_len * UsizeBits THEN TooNew
    ELSE LET element_raw_index == (index - inner.start_offset) \div UsizeBits
             element_index == (element_raw_index + inner.tail) % bitfield_len
             bit_offset == index % UsizeBits
         IN  Found(element_index, {bit_offset})

\* the elements at tail and after it set to 0, el_shift of them, the tail
\* moving on around the bitfield
zero_from_tail(inner, el_shift) ==
    LET len == Len(inner.bitfield) IN
    [inner EXCEPT
        !.bitfield = [e \in 1..len |->
            IF \E k \in 0..(el_shift - 1) : (inner.tail + k) % len = e - 1
            THEN {} ELSE inner.bitfield[e]],
        !.tail = IF len = 0 THEN inner.tail ELSE (inner.tail + el_shift) % len]

\* the window moved to new_index with every element set to 0
ReplayProtection_advance_window_cleared(inner, new_index) ==
    IF resolve_index(inner, new_index) # TooNew THEN inner
    ELSE LET idx_from_tail == new_index - inner.start_offset
             el_aligned_index == idx_from_tail - (idx_from_tail % UsizeBits)
             half_bitfield == Len(inner.bitfield) \div 2
         IN  [start_offset |-> inner.start_offset
                               + (el_aligned_index - half_bitfield * UsizeBits),
              tail |-> 0,
              bitfield |-> [e \in 1..Len(inner.bitfield) |-> {}]]

\* ReplayProtection::advance_window
ReplayProtection_advance_window(inner, new_index) ==
    IF resolve_index(inner, new_index) # TooNew THEN inner
    ELSE LET idx_from_tail == new_index - inner.start_offset
             el_aligned_index == idx_from_tail - (idx_from_tail % UsizeBits)
             el_offset_from_tail == idx_from_tail \div UsizeBits
             half_bitfield == Len(inner.bitfield) \div 2
             el_shift == el_offset_from_tail - half_bitfield
         IN  IF el_shift > Len(inner.bitfield)
             THEN [start_offset |-> inner.start_offset
                                   + (el_aligned_index - half_bitfield * UsizeBits),
                   tail |-> 0,
                   bitfield |-> [e \in 1..Len(inner.bitfield) |-> {}]]
             ELSE [zero_from_tail(inner, el_shift) EXCEPT
                      !.start_offset = inner.start_offset + el_shift * UsizeBits]

\* AtomicUsize::fetch_or: the element afterwards
fetch_or(current, mask) == current \cup mask

\* `current & mask > 0`
masked(current, mask) == current \cap mask # {}

Threads == 1..MaxThreads

RpUnlocked == [readers |-> {}, writer |-> <<>>]
\* a thread outside set_index and test_index that has made no call yet
RpNoCall == [pc |-> "idle", op |-> "new", index |-> 0, late |-> FALSE,
             ret |-> <<>>, calls |-> 0]
RpNoHist == [falses |-> [i \in 0..MaxRpIndex |-> 0], returned |-> {},
             raced |-> {}]

\* the ReplayProtection variables of a specification that does not use them
RpIdle ==
    /\ rp_inner = ReplayProtection_new(0)
    /\ rp_lock = RpUnlocked
    /\ rp_threads = [t \in Threads |-> RpNoCall]
    /\ rp_hist = RpNoHist

----------------------------------------------------------------------------
(* SpecRS: a RangeSet under insert_range and remove_range *)

ProperRanges ==
    {r \in [start : 0..MaxPoint, end : 0..MaxPoint] : r.start < r.end}

RsNoCall == [op |-> "new", range |-> Rng(0, 0), ret |-> TRUE, affected |-> 0,
             unreachable |-> FALSE, before |-> EmptyMap]

\* RangeSet::new(max_size) and RangeSet::unlimited()
RsInit ==
    /\ rs_map = EmptyMap
    /\ rs_max_size \in (1..MaxRangeCap) \cup {UsizeMax}
    /\ rs_last = RsNoCall

RsInsertRange ==
    \E r \in ProperRanges :
        LET res == insert_range(rs_map, rs_max_size, r) IN
        /\ rs_map' = res.map
        /\ rs_last' = [op |-> "insert_range", range |-> r, ret |-> res.ret,
                       affected |-> 0, unreachable |-> res.unreachable,
                       before |-> rs_map]
        /\ UNCHANGED rs_max_size

RsRemoveRange ==
    \E r \in ProperRanges :
        LET res == remove_range(rs_map, r.start, r.end) IN
        /\ rs_map' = res.map
        /\ rs_last' = [op |-> "remove_range", range |-> r, ret |-> TRUE,
                       affected |-> res.affected, unreachable |-> FALSE,
                       before |-> rs_map]
        /\ UNCHANGED rs_max_size

RsNext == RsInsertRange \/ RsRemoveRange

InitRS == RsInit /\ RbIdle /\ InIdle /\ SqIdle /\ ExtIdle /\ RpIdle
NextRS == RsNext /\ UNCHANGED <<rb_vars, in_vars, sq_vars, ext_vars, rp_vars>>
SpecRS == InitRS /\ [][NextRS]_vars

----------------------------------------------------------------------------
(* Claims about the RangeSet *)

Points(map) == {p \in 0..MaxPoint : \E k \in DOMAIN map : k <= p /\ p < k + map[k]}
RangePoints(r) == {p \in 0..MaxPoint : r.start <= p /\ p < r.end}
\* the stored ranges of map that overlap r or are adjacent to it
Touching(map, r) == {k \in DOMAIN map : k <= r.end /\ k + map[k] >= r.start}
\* the stored ranges of map that share a point with r
Intersecting(map, r) == {k \in DOMAIN map : k < r.end /\ k + map[k] > r.start}

C2_InsertIsUnion ==
    rs_last.op = "insert_range" =>
        LET r == rs_last.range
            before == rs_last.before
            touched == Touching(before, r)
        IN  /\ ~rs_last.unreachable
            /\ rs_last.ret =>
                /\ Points(rs_map) = Points(before) \cup RangePoints(r)
                /\ \E k \in DOMAIN rs_map :
                    /\ k <= r.start /\ k + rs_map[k] >= r.end
                    /\ \A t \in touched : k <= t /\ t + before[t] <= k + rs_map[k]
                /\ touched # {} =>
                    Cardinality(DOMAIN rs_map) =
                        Cardinality(DOMAIN before) - Cardinality(touched) + 1

\* an insert has merged a range ending exactly at r.start and a second range
C2_Witness ==
    /\ rs_last.op = "insert_range"
    /\ rs_last.ret
    /\ Cardinality(Touching(rs_last.before, rs_last.range)) >= 2
    /\ \E t \in DOMAIN rs_last.before : t + rs_last.before[t] = rs_last.range.start
    /\ Cardinality(DOMAIN rs_map) = Cardinality(DOMAIN rs_last.before) - 1

\* C3: on a RangeSet created with cap N that holds N ranges, insert_range of a
\* range that neither overlaps nor touches a stored range returns false and
\* leaves the set unchanged; an insert that overlaps or touches a stored range
\* (or is already covered) returns true and does not increase the number of
\* stored ranges.
C3_FullSetInsert ==
    (rs_last.op = "insert_range"
        /\ Cardinality(DOMAIN rs_last.before) = rs_max_size) =>
        IF Touching(rs_last.before, rs_last.range) = {}
        THEN ~rs_last.ret /\ rs_map = rs_last.before
        ELSE rs_last.ret
             /\ Cardinality(DOMAIN rs_map) <= Cardinality(DOMAIN rs_last.before)

\* a full set has refused an entirely new range
C3_Witness ==
    /\ rs_last.op = "insert_range"
    /\ Cardinality(DOMAIN rs_last.before) = rs_max_size
    /\ Touching(rs_last.before, rs_last.range) = {}
    /\ ~rs_last.ret

\* C4: remove_range(r) with r.start < r.end leaves exactly the points covered
\* before minus r (contained ranges vanish, ranges crossing an edge are
\* trimmed, a range straddling both edges is split) and returns the number of
\* stored ranges that intersected r.
C4_RemoveIsDifference ==
    rs_last.op = "remove_range" =>
        /\ Points(rs_map) = Points(rs_last.before) \ RangePoints(rs_last.range)
        /\ rs_last.affected = Cardinality(Intersecting(rs_last.before, rs_last.range))
        /\ \A k \in DOMAIN rs_map : rs_map[k] > 0

\* a remove has trimmed a range that starts inside r and extends past its end,
\* after removing another range
C4_Witness ==
    /\ rs_last.op = "remove_range"
    /\ rs_last.affected >= 2
    /\ \E k \in DOMAIN rs_last.before :
        /\ k >= rs_last.range.start /\ k < rs_last.range.end
        /\ k + rs_last.before[k] > rs_last.range.end
        /\ rs_last.range.end \in DOMAIN rs_map

\* C40: the number of stored ranges of a RangeSet created with cap N never
\* exceeds N, whatever insert_range and remove_range calls are made.
C40_CapKept == Cardinality(DOMAIN rs_map) <= rs_max_size

----------------------------------------------------------------------------
(* SpecCompl: the RangeSet of SpecRS, of which range_complement is also asked
   for the gaps within a range *)

\* the ranges start..end with start <= end
OrderedRanges ==
    {r \in [start : 0..MaxPoint, end : 0..MaxPoint] : r.start <= r.end}

\* range_complement(r) collected into a Vec, kept in rs_last as `yielded`
RsRangeComplement ==
    \E r \in OrderedRanges :
        /\ ~iter_range_panics(rs_map, r)
        /\ rs_last' = [op |-> "range_complement", range |-> r, ret |-> TRUE,
                       affected |-> 0, unreachable |-> FALSE,
                       before |-> rs_map,
                       yielded |-> range_complement(rs_map, r)]
        /\ UNCHANGED <<rs_map, rs_max_size>>

ComplNext == RsNext \/ RsRangeComplement

InitCompl == InitRS
NextCompl == ComplNext /\ UNCHANGED <<rb_vars, in_vars, sq_vars, ext_vars, rp_vars>>
SpecCompl == InitCompl /\ [][NextCompl]_vars

\* C37: range_complement(r) yields in ascending order exactly the maximal
\* subranges of r without a point of the set: they are non-empty, pairwise
\* disjoint, within r, their union is r minus the covered points, and nothing
\* is yielded when r is fully covered.
C37_ComplementIsGaps ==
    rs_last.op = "range_complement" =>
        LET r == rs_last.range
            y == rs_last.yielded
        IN  /\ \A i \in 1..Len(y) :
                  /\ y[i].start < y[i].end
                  /\ r.start <= y[i].start /\ y[i].end <= r.end
                  /\ y[i].start = r.start \/ (y[i].start - 1) \in Points(rs_map)
                  /\ y[i].end = r.end \/ y[i].end \in Points(rs_map)
            /\ \A i \in 1..(Len(y) - 1) : y[i].end < y[i + 1].start
            /\ UNION {RangePoints(y[i]) : i \in 1..Len(y)}
                   = RangePoints(r) \ Points(rs_map)
            /\ RangePoints(r) \subseteq Points(rs_map) => y = <<>>

\* two gaps were yielded around ranges of the set, the first of which
\* starts below r
C37_Witness ==
    /\ rs_last.op = "range_complement"
    /\ Len(rs_last.yielded) = 2
    /\ \E k \in DOMAIN rs_map :
          k < rs_last.range.start /\ k + rs_map[k] > rs_last.range.start

----------------------------------------------------------------------------
(* SpecRev: a RangeSet over the points 0..MaxRevPoint, of which remove_range
   is asked with proper, zero-length and reversed ranges *)

MaxRevPoint == 3

RevProperRanges ==
    {r \in [start : 0..MaxRevPoint, end : 0..MaxRevPoint] : r.start < r.end}
RevRanges == [start : 0..MaxRevPoint, end : 0..MaxRevPoint]

\* panic!("cannot remove zero-length range")
remove_range_panics(lower_bound, upper_bound) == lower_bound = upper_bound

RvInsertRange ==
    \E r \in RevProperRanges :
        LET res == insert_range(rs_map, rs_max_size, r) IN
        /\ rs_map' = res.map
        /\ rs_last' = [op |-> "insert_range", range |-> r, ret |-> res.ret,
                       affected |-> 0, unreachable |-> res.unreachable,
                       before |-> rs_map]
        /\ UNCHANGED rs_max_size

\* a remove_range that panics leaves ret FALSE and the map as it was
RvRemoveRange ==
    \E r \in RevRanges :
        LET res == remove_range(rs_map, r.start, r.end)
            failed == remove_range_panics(r.start, r.end)
        IN
        /\ rs_map' = IF failed THEN rs_map ELSE res.map
        /\ rs_last' = [op |-> "remove_range", range |-> r, ret |-> ~failed,
                       affected |-> IF failed THEN 0 ELSE res.affected,
                       unreachable |-> FALSE, before |-> rs_map]
        /\ UNCHANGED rs_max_size

RevNext == RvInsertRange \/ RvRemoveRange

InitRev == InitRS
NextRev == RevNext /\ UNCHANGED <<rb_vars, in_vars, sq_vars, ext_vars, rp_vars>>
SpecRev == InitRev /\ [][NextRev]_vars

\* C38: remove_range called with a reversed range (start > end) fails hard
\* and never modifies the stored set, so it never leaves two overlapping
\* stored ranges.
C38_ReversedRejected ==
    /\ rs_last.op = "remove_range" /\ rs_last.range.start > rs_last.range.end
          => ~rs_last.ret /\ rs_map = rs_last.before
    /\ \A a \in DOMAIN rs_map : \A b \in DOMAIN rs_map :
          a < b => a + rs_map[a] <= b

----------------------------------------------------------------------------
(* SpecRB: a RingBuf under push_back, push_front, pop_back, pop_front and
   reserve; a panic ends the run *)

\* RingBuf::new() and RingBuf::with_capacity(cap), in a debug or release build
RbInit ==
    /\ ring \in {RbNew} \cup {with_capacity(c) : c \in 0..MaxCapacity}
    /\ rb_last = RbNoCall
    /\ debug_assertions \in BOOLEAN

RbCalled(op, arg, res, ret) ==
    /\ ring' = res.rb
    /\ rb_last' = [op |-> op, arg |-> arg, ret |-> ret, panicked |-> res.panicked,
                   before |-> Contents(ring), len_before |-> ring.len]
    /\ UNCHANGED debug_assertions

RbPushBack ==
    /\ ~rb_last.panicked
    /\ ring.len < MaxCapacity
    /\ \E val \in Elem : \E grown \in GrownCapacities(ring, 1) :
        RbCalled("push_back", val, push_back(ring, val, grown), <<>>)

RbPushFront ==
    /\ ~rb_last.panicked
    /\ ring.len < MaxCapacity
    /\ \E val \in Elem : \E grown \in GrownCapacities(ring, 1) :
        RbCalled("push_front", val, push_front(ring, val, grown), <<>>)

RbPopBack ==
    /\ ~rb_last.panicked
    /\ LET res == pop_back(ring) IN
       \E ret \in ReadOutcomes(res.ret) : RbCalled("pop_back", 0, res, ret)

RbPopFront ==
    /\ ~rb_last.panicked
    /\ LET res == pop_front(ring) IN
       \E ret \in ReadOutcomes(res.ret) : RbCalled("pop_front", 0, res, ret)

RbReserve ==
    /\ ~rb_last.panicked
    /\ \E count \in 1..MaxCapacity :
        /\ ring.len + count <= MaxCapacity
        /\ \E grown \in GrownCapacities(ring, count) :
            RbCalled("reserve", count,
                     RbResult(reserve(ring, count, grown), <<>>, FALSE), <<>>)

RbNext == RbPushBack \/ RbPushFront \/ RbPopBack \/ RbPopFront \/ RbReserve

RsIdle ==
    /\ rs_map = EmptyMap
    /\ rs_max_size = UsizeMax
    /\ rs_last = RsNoCall

InitRB == RbInit /\ RsIdle /\ InIdle /\ SqIdle /\ ExtIdle /\ RpIdle
NextRB == RbNext /\ UNCHANGED <<rs_vars, in_vars, sq_vars, ext_vars, rp_vars>>
SpecRB == InitRB /\ [][NextRB]_vars

----------------------------------------------------------------------------
(* Claims about the RingBuf *)

\* C5: push_back(x) immediately followed by pop_back() returns Some(x) and
\* leaves the buffer as it was before the push; push_front(x) immediately
\* followed by pop_front() does the same at the front.
C5_PushPopRoundTrip ==
    [][ /\ (rb_last.op = "push_back" /\ rb_last'.op = "pop_back") =>
            /\ ~rb_last'.panicked
            /\ rb_last'.ret = <<rb_last.arg>>
            /\ Contents(ring') = rb_last.before
        /\ (rb_last.op = "push_front" /\ rb_last'.op = "pop_front") =>
            /\ ~rb_last'.panicked
            /\ rb_last'.ret = <<rb_last.arg>>
            /\ Contents(ring') = rb_last.before
      ]_vars

\* C6: push_back appends at the back and push_front at the front, whether or
\* not the backing buffer grows, pop_front returns the front element of that
\* logical order, and growth (reserve) changes neither len nor the logical
\* elements.
C6_GrowthKeepsOrder ==
    /\ rb_last.op \in {"push_back", "push_front", "pop_front", "reserve"} =>
        ~rb_last.panicked
    /\ rb_last.op = "push_back" => Contents(ring) = Append(rb_last.before, rb_last.arg)
    /\ rb_last.op = "push_front" => Contents(ring) = <<rb_last.arg>> \o rb_last.before
    /\ rb_last.op = "reserve" =>
        /\ Contents(ring) = rb_last.before
        /\ ring.len = rb_last.len_before
        /\ capacity(ring) >= ring.len + rb_last.arg
    /\ rb_last.op = "pop_front" =>
        IF rb_last.before = <<>>
        THEN rb_last.ret = <<>> /\ Contents(ring) = <<>>
        ELSE rb_last.ret = <<Head(rb_last.before)>>
             /\ Contents(ring) = Tail(rb_last.before)

\* the same statement for a build without debug assertions
C6_ReleaseGrowthKeepsOrder == ~debug_assertions => C6_GrowthKeepsOrder

----------------------------------------------------------------------------
(* SpecDrain: a RingBuf under the operations of SpecRB and drain, the
   iterator collected *)

\* what a sequence read from the buffer can be: a slot never written reads as
\* any element
ReadSeqOutcomes(seq) ==
    {out \in [1..Len(seq) -> Elem] :
        \A i \in 1..Len(seq) : seq[i] # Uninit => out[i] = seq[i]}

\* drain(..end), drain(..), drain(start..) and drain(start..end)
RbDrain ==
    /\ ~rb_last.panicked
    /\ \E lower, upper \in {<<>>} \cup {<<n>> : n \in 0..MaxCapacity} :
        LET res == RingBuf_drain(ring, lower, upper) IN
        \E ret \in ReadSeqOutcomes(res.ret) :
            RbCalled("drain", [start |-> lower, end |-> upper], res, ret)

DrainNext == RbNext \/ RbDrain

InitDrain == InitRB
NextDrain == DrainNext /\ UNCHANGED <<rs_vars, in_vars, sq_vars, ext_vars, rp_vars>>
SpecDrain == InitDrain /\ [][NextDrain]_vars

\* the last call was drain(..n) or drain(..) and returned
DrainedPrefix ==
    /\ rb_last.op = "drain"
    /\ ~rb_last.panicked
    /\ rb_last.arg.start = <<>>

\* the last call was drain(a..) and returned
DrainedSuffix ==
    /\ rb_last.op = "drain"
    /\ ~rb_last.panicked
    /\ rb_last.arg.start # <<>>

\* C25: drain(..n) with n <= len yields the former elements 0..n in order,
\* and the buffer then holds len - n elements, element i being the former
\* element n + i, wherever the head of the buffer was before the call.
C25_DrainPrefix ==
    DrainedPrefix =>
        LET n == IF rb_last.arg.end = <<>> THEN rb_last.len_before
                 ELSE rb_last.arg.end[1]
        IN  /\ rb_last.ret = SubSeq(rb_last.before, 1, n)
            /\ ring.len = rb_last.len_before - n
            /\ Contents(ring) = SubSeq(rb_last.before, n + 1, rb_last.len_before)

\* C26: drain(a..) with a < len yields the former elements a..len in order
\* and leaves the buffer holding the former first a elements and no more.
C26_DrainSuffix ==
    DrainedSuffix =>
        LET a == rb_last.arg.start[1] IN
        /\ rb_last.ret = SubSeq(rb_last.before, a + 1, rb_last.len_before)
        /\ ring.len = a
        /\ Contents(ring) = SubSeq(rb_last.before, 1, a)

----------------------------------------------------------------------------
(* SpecIn: a StreamInboundState under receive_segment, set_limit,
   set_final_offset and advance_buffer, and under Stream's read_buffer_until
   and consume_until; a panic ends the run *)

\* the payloads fed: n bytes cycling through Elem from a chosen first byte
Payload(n, first) == [i \in 1..n |-> ((first + i - 2) % MaxElem) + 1]
Segments == {Payload(n, first) : n \in 0..MaxSegLen, first \in Elem}

InInit ==
    /\ inb \in {InNew(l) : l \in 0..MaxBufCapacity}
    /\ in_last = InNoCall

\* repeat: the call has the operation and arguments of the call before it
InCalled(op, offset, data, res) ==
    /\ inb' = res.st
    /\ in_last' = [op |-> op, offset |-> offset, data |-> data, ret |-> res.ret,
                   panicked |-> res.panicked,
                   repeat |-> (in_last.op = op /\ in_last.offset = offset
                               /\ in_last.data = data)]

InReceiveSegment ==
    /\ ~in_last.panicked
    /\ \E offset \in 0..MaxLimit : \E data \in Segments :
        \E grown \in ReceiveCapacities(inb, offset, data) :
            InCalled("receive_segment", offset, data,
                     receive_segment(inb, offset, data, grown))

\* the limit stays within MaxBufCapacity of the buffer start
InSetLimit ==
    /\ ~in_last.panicked
    /\ \E new_limit \in 0..MaxLimit :
        /\ new_limit - inb.buffer_offset <= MaxBufCapacity
        /\ InCalled("set_limit", new_limit, <<>>, set_limit(inb, new_limit))

InSetFinalOffset ==
    /\ ~in_last.panicked
    /\ \E offset \in {MaxLimit} :
        InCalled("set_final_offset", offset, <<>>, set_final_offset(inb, offset))

InAdvanceBuffer ==
    /\ ~in_last.panicked
    /\ \E new_base \in 0..MaxLimit :
        InCalled("advance_buffer", new_base, <<>>, advance_buffer(inb, new_base))

InReadBufferUntil ==
    /\ ~in_last.panicked
    /\ \E end_offset \in 0..MaxLimit :
        InCalled("read_buffer_until", end_offset, <<>>,
                 read_buffer_until(inb, end_offset))

InConsumeUntil ==
    /\ ~in_last.panicked
    /\ \E end_offset \in 0..MaxLimit :
        InCalled("consume_until", end_offset, <<>>, consume_until(inb, end_offset))

InNext ==
    \/ InReceiveSegment
    \/ InSetLimit
    \/ InSetFinalOffset
    \/ InAdvanceBuffer
    \/ InReadBufferUntil
    \/ InConsumeUntil

InitIn == InInit /\ RsIdle /\ RbIdle /\ SqIdle /\ ExtIdle /\ RpIdle
NextIn == InNext /\ UNCHANGED <<rs_vars, rb_vars, sq_vars, ext_vars, rp_vars>>
SpecIn == InitIn /\ [][NextIn]_vars

----------------------------------------------------------------------------
(* Claims about the StreamInboundState *)

InPoints(map) == {p \in 0..MaxLimit : \E k \in DOMAIN map : k <= p /\ p < k + map[k]}

\* C9: after every operation `received` contains all of [0, buffer_offset) and
\* no offset at or beyond buffer_offset + buffer.len().
C9_ReceivedWithinBuffer ==
    /\ \A o \in 0..MaxLimit : o < inb.buffer_offset => o \in InPoints(inb.received)
    /\ \A k \in DOMAIN inb.received :
        k + inb.received[k] <= inb.buffer_offset + inb.buffer.len

\* a consume_until has moved the buffer start past a hole while data received
\* beyond it stays buffered
C9_Witness ==
    /\ in_last.op = "consume_until"
    /\ ~in_last.panicked
    /\ inb.buffer_offset > 0
    /\ inb.buffer.len > 0
    /\ Cardinality(DOMAIN inb.received) >= 2

\* the stream offsets of the segment of the last receive_segment call
SegmentOffsets(call) ==
    {o \in 0..MaxLimit : call.offset <= o /\ o < call.offset + Len(call.data)}

C8_RepeatIsDuplicate ==
    [][ (in_last'.op = "receive_segment" /\ in_last'.repeat) =>
          /\ in_last'.ret = "Duplicate"
          /\ inb' = inb
      ]_vars

\* C8 amended: when receive_segment(o, d) did not return ExceedsWindow, the
\* same call made again returns Duplicate and changes neither the buffer, nor
\* `received`, nor window_limit; a segment beyond the window limit is answered
\* ExceedsWindow both times.
C8_RepeatWithinWindowIsDuplicate ==
    [][ (in_last'.op = "receive_segment" /\ in_last'.repeat) =>
          /\ inb' = inb
          /\ in_last'.ret =
                IF in_last.ret = "ExceedsWindow" THEN "ExceedsWindow" ELSE "Duplicate"
      ]_vars

\* a segment of several bytes that makes up all of `received` has been given
\* a second time and answered Duplicate
C8_Witness ==
    /\ in_last.op = "receive_segment"
    /\ in_last.repeat
    /\ in_last.ret = "Duplicate"
    /\ Len(in_last.data) >= 2
    /\ in_last.offset > 0
    /\ DOMAIN inb.received = {in_last.offset}
    /\ inb.received[in_last.offset] = Len(in_last.data)

\* the offsets k for which read_segment(k..k+1) returns a byte
Readable(st) ==
    {k \in 0..MaxLimit : read_segment_available(st, Rng(k, k + 1))}

\* C27: advance_buffer(new_base) with buffer_offset <= new_base leaves
\* buffer_offset == new_base, takes new_base - buffer_offset bytes off the
\* front of the buffer, or all of them if it held fewer, and for every
\* received offset k >= new_base read_segment(k..k+1) returns the byte it
\* returned before the call, in every call of a run of advance_buffer and
\* receive_segment calls.
C27_AdvanceKeepsBytes ==
    [][ (in_last'.op = "advance_buffer" /\ inb.buffer_offset <= in_last'.offset) =>
          LET new_base == in_last'.offset
              delta == new_base - inb.buffer_offset
          IN  /\ ~in_last'.panicked
              /\ inb'.buffer_offset = new_base
              /\ inb'.buffer.len = IF inb.buffer.len < delta THEN 0
                                   ELSE inb.buffer.len - delta
              /\ \A k \in Readable(inb) :
                    k >= new_base =>
                        /\ k \in Readable(inb')
                        /\ ByteAt(inb', k) = ByteAt(inb, k)
      ]_vars

\* C36: on a reliable StreamInboundState finished() returns true only if a
\* final offset is set and every offset in [0, final_offset) is in `received`.
C36_FinishedIsComplete ==
    finished(inb, TRUE) =>
        /\ inb.final_offset # <<>>
        /\ \A k \in 0..(inb.final_offset[1] - 1) : k \in InPoints(inb.received)

----------------------------------------------------------------------------
(* SpecSeq: a Stream given an initial sequence number and then in-order
   data segments, with acknowledgments of recently fed bytes in between;
   sq_fed counts the bytes fed since set_isn *)

\* bytes fed in all: enough to pass the rollover and slide the window beyond
\* it from every ISN, and to do so twice from an ISN just below the rollover
MaxFed == SeqSpace + SEQ_WINDOW_SIZE

SqInit ==
    /\ strm = StreamNew
    /\ sq_fed = 0
    /\ sq_last = SqNoCall
    /\ debug_assertions \in BOOLEAN

SqSetIsn ==
    /\ sq_last.op = "new"
    /\ \E isn \in 0..(SeqSpace - 1) :
        /\ strm' = set_isn(strm, isn)
        /\ sq_last' = [SqNoCall EXCEPT !.op = "set_isn", !.number = isn]
    /\ UNCHANGED <<sq_fed, debug_assertions>>

\* handle_data_packet's update_offset for the next len bytes of the stream
SqData ==
    /\ sq_last.op # "new"
    /\ ~sq_last.panicked
    /\ \E len \in 1..MaxSeqStep :
        /\ sq_fed + len <= MaxFed
        /\ LET number == wrapping_add(strm.initial_sequence_number, sq_fed)
               res == update_offset(strm, number, TRUE)
           IN  /\ strm' = res.s
               /\ sq_fed' = sq_fed + len
               /\ sq_last' = [op |-> "data", number |-> number,
                              should_advance |-> TRUE, ret |-> res.ret,
                              panicked |-> res.panicked, fed_before |-> sq_fed]
    /\ UNCHANGED debug_assertions

\* handle_ack_packet's update_offset for an acknowledgment of a byte fed at
\* most MaxSeqStep bytes ago; of an acknowledgment sq_last keeps only that it
\* was made
SqAck ==
    /\ sq_last.op # "new"
    /\ ~sq_last.panicked
    /\ \E back \in 0..MaxSeqStep :
        /\ back <= sq_fed
        /\ LET number == wrapping_add(strm.initial_sequence_number, sq_fed - back)
               res == update_offset(strm, number, TRUE)
           IN  /\ strm' = res.s
               /\ sq_last' = [SqNoCall EXCEPT !.op = "ack",
                                              !.panicked = res.panicked]
    /\ UNCHANGED <<sq_fed, debug_assertions>>

SqNext == SqSetIsn \/ SqData \/ SqAck

InitSeq == SqInit /\ RsIdle /\ InIdle /\ ring = RbNew /\ rb_last = RbNoCall /\ ExtIdle /\ RpIdle
NextSeq == SqNext /\ UNCHANGED <<rs_vars, ring, rb_last, in_vars, ext_vars, rp_vars>>
SpecSeq == InitSeq /\ [][NextSeq]_vars

----------------------------------------------------------------------------
(* Claims about the sequence number mapping *)

\* C10: for every initial sequence number, update_offset maps the sequence
\* number of each in-order data segment, before and after the rollover and
\* through every later slide of the window, to the number of bytes fed since
\* the ISN (an offset congruent to number - ISN modulo the sequence space), so
\* each byte is handed to receive_segment at its position in the stream.
C10_SeqMapsToBytesFed ==
    sq_last.op = "data" =>
        /\ ~sq_last.panicked
        /\ sq_last.ret = <<sq_last.fed_before>>
        /\ sq_last.ret[1] % SeqSpace =
            wrapping_sub(sq_last.number, strm.initial_sequence_number)

\* a data segment has been mapped after the second rollover: seq_offset has
\* been moved on twice, the offset is beyond the size of the sequence space and
\* the sequence number is below the ISN
C10_Witness ==
    /\ sq_last.op = "data"
    /\ sq_last.ret # <<>>
    /\ sq_last.ret[1] > SeqSpace
    /\ sq_last.number < strm.initial_sequence_number
    /\ strm.seq_offset.kind = "Subsequent"
    /\ strm.seq_offset.value > SeqSpace

----------------------------------------------------------------------------
(* SpecWin: update_offset given sequence numbers at the edges of the window
   and of the slide threshold, with and without should_advance, and
   handle_rst_packet given the same numbers, on a Stream before and after
   set_isn *)

\* seq_offset is followed through MaxRollovers rollovers
MaxRollovers == 2

WinIsns == {0, SeqSpace - 2}

\* the distances of the sequence numbers from seq_window_start
WinSteps == {0, SEQ_WINDOW_ADVANCE_THRESHOLD, SEQ_WINDOW_ADVANCE_THRESHOLD + 1,
             SEQ_WINDOW_SIZE - 1, SEQ_WINDOW_SIZE, SeqSpace - 1}

WinSetIsn ==
    /\ sq_last.op # "set_isn"
    /\ strm.seq_window_start = strm.seq_window_end
    /\ ~sq_last.panicked
    /\ \E isn \in WinIsns :
        /\ strm' = set_isn(strm, isn)
        /\ sq_last' = [SqNoCall EXCEPT !.op = "set_isn", !.number = isn]
    /\ UNCHANGED <<sq_fed, debug_assertions>>

WinCalled(op, number, should_advance, res) ==
    /\ ~sq_last.panicked
    /\ res.s.seq_offset.value <= MaxRollovers * SeqSpace
    /\ strm' = res.s
    /\ sq_last' = [op |-> op, number |-> number,
                   should_advance |-> should_advance, ret |-> res.ret,
                   panicked |-> res.panicked, fed_before |-> 0]
    /\ UNCHANGED <<sq_fed, debug_assertions>>

WinUpdateOffset ==
    \E step \in WinSteps, should_advance \in BOOLEAN :
        LET number == wrapping_add(strm.seq_window_start, step) IN
        WinCalled("update_offset", number, should_advance,
                  update_offset(strm, number, should_advance))

\* handle_rst_packet of a Stream with these sequence fields
WinRst ==
    \E step \in WinSteps :
        LET number == wrapping_add(strm.seq_window_start, step)
            res == handle_rst_packet([Stream_new EXCEPT !.seq = strm], number)
        IN  WinCalled("rst", number, FALSE,
                      [s |-> res.st.seq, ret |-> res.ret,
                       panicked |-> res.panicked])

WinNext == WinSetIsn \/ WinUpdateOffset \/ WinRst

InitWin == SqInit /\ RsIdle /\ InIdle /\ ring = RbNew /\ rb_last = RbNoCall /\ ExtIdle /\ RpIdle
NextWin == WinNext /\ UNCHANGED <<rs_vars, ring, rb_last, in_vars, ext_vars, rp_vars>>
SpecWin == InitWin /\ [][NextWin]_vars

\* number lies in [seq_window_start, seq_window_end) of the sequence space
InWindow(s, number) ==
    wrapping_sub(number, s.seq_window_start)
        < wrapping_sub(s.seq_window_end, s.seq_window_start)

\* the call of the step left the window and seq_offset as they were
WindowKept ==
    /\ strm'.seq_window_start = strm.seq_window_start
    /\ strm'.seq_window_end = strm.seq_window_end
    /\ strm'.seq_offset = strm.seq_offset

\* the window of the step, where it has changed, starts
\* SEQ_WINDOW_ADVANCE_BY below the number and is SEQ_WINDOW_SIZE long
WindowSlid ==
    (strm'.seq_window_start # strm.seq_window_start
     \/ strm'.seq_window_end # strm.seq_window_end) =>
        /\ strm'.seq_window_start
           = wrapping_sub(sq_last'.number, SEQ_WINDOW_ADVANCE_BY)
        /\ strm'.seq_window_end
           = wrapping_add(strm'.seq_window_start, SEQ_WINDOW_SIZE)

\* a call of update_offset, by itself or from handle_rst_packet, that has
\* not panicked
WinCall ==
    /\ sq_last'.op \in {"update_offset", "rst"}
    /\ ~sq_last.panicked
    /\ ~sq_last'.panicked

\* the frame of update_offset
WindowFrame ==
    /\ (~InWindow(strm, sq_last'.number)) =>
          (sq_last'.op = "update_offset" => sq_last'.ret = <<>>) /\ WindowKept
    /\ (~sq_last'.should_advance
        \/ wrapping_sub(sq_last'.number, strm.seq_window_start)
           <= SEQ_WINDOW_ADVANCE_THRESHOLD) => WindowKept
    /\ sq_last'.op = "rst" => WindowKept
    /\ WindowSlid

----------------------------------------------------------------------------
(* SpecSt: a Stream as a Connection drives one direction: the window scale
   of the SYN, set_isn, then data, acknowledgment and FIN packets, with the
   handler reading and consuming the buffer and the segment info in between;
   a panic ends the run *)

\* the initial sequence number: two below the rollover, so that the sequence
\* numbers of the packets wrap
StIsns == {SeqSpace - 2}
\* the sequence number at a stream offset; offset -1 is outside the window
StNumber(offset) == wrapping_add(stm.seq.initial_sequence_number + SeqSpace, offset)

StStarted == st_last.op \notin {"new", "set_window_scale"}

StInit ==
    /\ stm = Stream_new
    /\ st_last = StNoCall
    /\ debug_assertions \in BOOLEAN

\* the counters stay within MaxStCount, the calls within MaxStCalls
StCalled(op, offset, len, res, popped) ==
    /\ st_last.calls < MaxStCalls
    /\ res.st.retransmit_count <= MaxStCount
    /\ res.st.segments_info_dropped <= MaxStCount
    /\ stm' = res.st
    /\ st_last' = [op |-> op, offset |-> offset, len |-> len, ret |-> res.ret,
                   panicked |-> res.panicked, info |-> res.info,
                   popped |-> popped, calls |-> st_last.calls + 1]
    /\ UNCHANGED debug_assertions

\* the window scale option of the SYN
SetWindowScaleCall(scales) ==
    /\ st_last.op = "new"
    /\ \E window_scale \in scales :
        StCalled("set_window_scale", <<>>, 0,
                 set_window_scale(stm, window_scale), <<>>)

SetIsnCall(windows) ==
    /\ ~StStarted
    /\ \E isn \in StIsns : \E window_size \in windows :
        StCalled("set_isn", <<>>, 0, Stream_set_isn(stm, isn, window_size), <<>>)

\* of a data packet st_last keeps the offset update_offset gave it and the
\* length of its payload
DataCall(offsets, lens) ==
    /\ StStarted /\ ~st_last.panicked
    /\ \E offset \in offsets : \E len \in lens : \E slack \in 0..MaxSlack :
        StCalled("data", update_offset(stm.seq, StNumber(offset), TRUE).ret, len,
                 handle_data_packet(stm, StNumber(offset), Payload(len, 1), slack),
                 <<>>)

\* of an acknowledgment st_last keeps the window size as len
AckCall(offsets, windows) ==
    /\ StStarted /\ ~st_last.panicked
    /\ \E offset \in offsets : \E window_size \in windows :
        StCalled("ack", <<offset>>, window_size,
                 handle_ack_packet(stm, StNumber(offset), window_size), <<>>)

FinCall(offsets, lens) ==
    /\ StStarted /\ ~st_last.panicked
    /\ \E offset \in offsets : \E data_len \in lens :
        StCalled("fin", <<offset>>, data_len,
                 handle_fin_packet(stm, StNumber(offset), data_len), <<>>)

\* Connection::handle_data_established gives the stream of the data the
\* highest_acked of the opposite stream: an assignment, not counted as a call
ReverseAckedCall(values) ==
    /\ StStarted /\ ~st_last.panicked
    /\ \E acked \in values :
        /\ stm' = [stm EXCEPT !.reverse_acked = acked]
        /\ st_last' = [StNoCall EXCEPT !.op = "reverse_acked",
                                       !.calls = st_last.calls]
    /\ UNCHANGED debug_assertions

ReadBufferUntilCall(ends) ==
    /\ StStarted /\ ~st_last.panicked
    /\ \E end_offset \in ends :
        StCalled("read_buffer_until", <<end_offset>>, 0,
                 Stream_read_buffer_until(stm, end_offset), <<>>)

\* read_gaps_until into an empty Vec; st_last keeps the Vec it leaves as ret
ReadGapsUntilCall(ends) ==
    /\ StStarted /\ ~st_last.panicked
    /\ \E end_offset \in ends :
        StCalled("read_gaps_until", <<end_offset>>, 0,
                 read_gaps_until(stm, end_offset, <<>>), <<>>)

\* a handler consumes what has been buffered, which lies within the window
\* limit
ConsumeUntilCall(ends) ==
    /\ StStarted /\ ~st_last.panicked
    /\ \E end_offset \in ends :
        /\ end_offset <= stm.state.window_limit
        /\ StCalled("consume_until", <<end_offset>>, 0,
                    Stream_consume_until(stm, end_offset), <<>>)

\* pop_segments_until into an empty Vec; st_last keeps the Vec it leaves
PopSegmentsUntilCall(ends) ==
    /\ StStarted /\ ~st_last.panicked
    /\ \E end_offset \in ends :
       \E res \in pop_segments_until(stm.segments_info, end_offset, <<>>) :
        StCalled("pop_segments_until", end_offset, 0,
                 StResult([stm EXCEPT !.segments_info = res.heap], TRUE, FALSE,
                          <<>>),
                 res.in_segments)

\* SpecSt gives the window sizes below and at the largest buffer, data at the
\* end of the largest buffer, and acknowledgments of its start and of an
\* offset beyond it
StSetWindowScale == SetWindowScaleCall({1})
StSetIsn == SetIsnCall({MAX_ALLOWED_BUFFER_SIZE - 2, MAX_ALLOWED_BUFFER_SIZE + 1})
StData == DataCall({-1, MaxStOffset - 2, MaxStOffset - 1}, 1..MaxStLen)
StAck == AckCall({0, MaxStOffset + 1}, {0, MAX_ALLOWED_BUFFER_SIZE + 1})
StFin == FinCall({MaxStOffset}, {0})
StReadBufferUntil == ReadBufferUntilCall({MaxStOffset - 1})
StConsumeUntil == ConsumeUntilCall({1, MaxStOffset - 1})
StPopSegmentsUntil == PopSegmentsUntilCall({<<>>})

StNext ==
    \/ StSetWindowScale
    \/ StSetIsn
    \/ StData
    \/ StAck
    \/ StFin
    \/ StReadBufferUntil
    \/ StConsumeUntil
    \/ StPopSegmentsUntil

\* the variables of the components below the Stream
base_vars == <<rs_vars, ring, rb_last, in_vars, sq_vars, rp_vars>>
BaseIdle == RsIdle /\ InIdle /\ SqIdle /\ ring = RbNew /\ rb_last = RbNoCall /\ RpIdle

InitSt == StInit /\ BaseIdle /\ FlIdle /\ CnIdle /\ FtIdle
NextSt == StNext /\ UNCHANGED <<base_vars, fl_vars, cn_vars, ft_vars>>
SpecSt == InitSt /\ [][NextSt]_vars

----------------------------------------------------------------------------
(* Claims about the Stream *)

\* whether the RangeSet holds offset p
Covered(map, p) == \E k \in DOMAIN map : k <= p /\ p < k + map[k]

\* the stream offsets of the data segment of a call
DataOffsets(call) == {p \in 0..(MaxStOffset + MaxStLen) :
                        call.offset[1] <= p /\ p < call.offset[1] + call.len}

\* C11: handle_data_packet, given a data segment whose offsets are all in
\* `received`, adds one to retransmit_count, records the segment with
\* is_retransmit = true and returns false; given a segment of which only a
\* part of the offsets is in `received`, it leaves retransmit_count as it was
\* and records the segment with is_retransmit = false.
C11_RetransmitCounted ==
    [][ (st_last'.op = "data" /\ st_last'.offset # <<>>) =>
          LET old == {p \in DataOffsets(st_last') : Covered(stm.state.received, p)}
          IN  /\ old = DataOffsets(st_last') =>
                    /\ ~st_last'.panicked
                    /\ stm'.retransmit_count = stm.retransmit_count + 1
                    /\ st_last'.info # <<>>
                    /\ st_last'.info[1].data.is_retransmit
                    /\ st_last'.ret = FALSE
              /\ (old # {} /\ old # DataOffsets(st_last')) =>
                    /\ ~st_last'.panicked
                    /\ stm'.retransmit_count = stm.retransmit_count
                    /\ st_last'.info # <<>>
                    /\ ~st_last'.info[1].data.is_retransmit
      ]_vars

\* C18: after every call on a Stream the window limit is at most
\* MAX_ALLOWED_BUFFER_SIZE beyond the start of the buffer, and the buffer holds
\* at most MAX_ALLOWED_BUFFER_SIZE bytes.
C18_BufferBounded ==
    /\ stm.state.window_limit - stm.state.buffer_offset <= MAX_ALLOWED_BUFFER_SIZE
    /\ stm.state.buffer.len <= MAX_ALLOWED_BUFFER_SIZE

\* the stream holds a full segments_info that a call has had to drop an
\* entry from
C19_Full(st) == heap_len(st.segments_info) = MAX_SEGMENTS_INFO_COUNT

\* C19: segments_info never holds more than MAX_SEGMENTS_INFO_COUNT entries,
\* and a call that gives add_segment_info an entry while it holds that many
\* leaves segments_info as it was and adds one to segments_info_dropped.
C19_SegmentsInfoCapped ==
    /\ [](heap_len(stm.segments_info) <= MAX_SEGMENTS_INFO_COUNT)
    /\ [][ (st_last'.info # <<>> /\ C19_Full(stm)) =>
              /\ stm'.segments_info = stm.segments_info
              /\ stm'.segments_info_dropped = stm.segments_info_dropped + 1
         ]_vars

\* a packet has been handled with segments_info full: its entry was dropped
C19_Witness ==
    /\ st_last.info # <<>>
    /\ C19_Full(stm)
    /\ st_last.info[1] \notin DOMAIN stm.segments_info
    /\ stm.segments_info_dropped >= 1

\* C23: receive_segment called from handle_data_packet never answers
\* ExceedsWindow: once handle_data_packet has raised the window limit or cut
\* the packet, the segment it gives to receive_segment ends at or below
\* window_limit, and unreachable!() is not reached.
C23_NeverExceedsWindow ==
    [][ (st_last'.op = "data" /\ st_last'.offset # <<>>) =>
          LET offset == st_last'.offset[1]
              fit == fit_window(stm, offset, Payload(st_last'.len, 1))
          IN  (~fit.panicked /\ ~fit.dropped) =>
                 /\ offset + Len(fit.data) <= fit.st.state.window_limit
                 /\ receive_segment(fit.st.state, offset, fit.data,
                                    MaxBufCapacity).ret # "ExceedsWindow"
      ]_vars

\* C24: every set_limit call of a Stream is given a limit at or above the
\* window limit: the window limit never goes down, and the limit that
\* handle_ack_packet gives to set_limit is not below the window limit.
C24_LimitNeverRetreats ==
    /\ [][stm'.state.window_limit >= stm.state.window_limit]_vars
    /\ [][ st_last'.op = "ack" =>
             LET upd == update_offset(stm.seq, StNumber(st_last'.offset[1]), TRUE)
                 limit == upd.ret[1] + st_last'.len * (2 ^ stm.window_scale)
                 new_limit ==
                     IF limit - stm.state.buffer_offset > MAX_ALLOWED_BUFFER_SIZE
                     THEN stm.state.buffer_offset + MAX_ALLOWED_BUFFER_SIZE
                     ELSE limit
             IN  (upd.ret # <<>> /\ limit > stm.state.window_limit
                  /\ limit >= stm.state.buffer_offset) =>
                     new_limit >= stm.state.window_limit
         ]_vars

\* SpecEst: a Stream that has got no window scale, given small windows and
\* data beyond them, with an acknowledgment and the handler consuming the
\* buffer in between, so that estimate_window_scale is called with every
\* window scale
EsSetIsn == SetIsnCall({1, MAX_ALLOWED_BUFFER_SIZE - 2})
EsData == DataCall({1, MAX_ALLOWED_BUFFER_SIZE - 2, 2 * MAX_ALLOWED_BUFFER_SIZE - 2}, {1})
EsAck == AckCall({MAX_ALLOWED_BUFFER_SIZE - 1}, {0})
EsConsumeUntil == ConsumeUntilCall({MAX_ALLOWED_BUFFER_SIZE})

EsNext ==
    \/ EsSetIsn
    \/ EsData
    \/ EsAck
    \/ EsConsumeUntil

InitEst == InitSt
NextEst == EsNext /\ UNCHANGED <<base_vars, fl_vars, cn_vars, ft_vars>>
SpecEst == InitEst /\ [][NextEst]_vars

\* the shifts from window_scale up to MAX_WINDOW_SCALE by which the unscaled
\* window above highest_acked reaches fit_end_offset
FittingShifts(st, fit_end_offset) ==
    LET unscaled == (st.state.window_limit - st.highest_acked)
                    \div (2 ^ st.window_scale)
    IN  {s \in st.window_scale..MAX_WINDOW_SCALE :
            st.highest_acked + unscaled * (2 ^ s) >= fit_end_offset}

\* the limit estimate_window_scale sets for shift s
EstimatedLimit(st, s) ==
    st.highest_acked
    + ((st.state.window_limit - st.highest_acked) \div (2 ^ st.window_scale))
      * (2 ^ s)

\* handle_data_packet is given a packet that ends beyond window_limit and
\* within MAX_ALLOWED_BUFFER_SIZE of the buffer, on a Stream that has got no
\* window scale and whose highest_acked is within the window limit
EstimateCalled ==
    /\ st_last'.op = "data"
    /\ st_last'.offset # <<>>
    /\ ~st_last.panicked
    /\ st_last'.offset[1] + st_last'.len > stm.state.window_limit
    /\ st_last'.offset[1] + st_last'.len >= stm.state.buffer_offset
    /\ st_last'.offset[1] + st_last'.len - stm.state.buffer_offset
       < MAX_ALLOWED_BUFFER_SIZE
    /\ ~stm.got_window_scale
    /\ stm.highest_acked <= stm.state.window_limit

\* C29: for a data packet that ends beyond window_limit on a Stream that has
\* got no window scale, estimate_window_scale takes the smallest shift from
\* window_scale up to MAX_WINDOW_SCALE by which highest_acked plus the
\* unscaled window reaches the end of the packet, makes it the window scale
\* and sets window_limit to that sum; only when no such shift exists does it
\* fail, window_limit then being set to the end of the packet.
C29_EstimateSmallestShift ==
    [][ EstimateCalled =>
          LET fit_end_offset == st_last'.offset[1] + st_last'.len
              shifts == FittingShifts(stm, fit_end_offset)
          IN  /\ ~st_last'.panicked
              /\ IF shifts # {}
                 THEN /\ stm'.window_scale = SetMin(shifts)
                      /\ stm'.state.window_limit
                         = EstimatedLimit(stm, SetMin(shifts))
                 ELSE /\ stm'.window_scale = stm.window_scale
                      /\ stm'.state.window_limit = fit_end_offset
      ]_vars

\* the offsets from buffer_offset on that are received without a hole
ContiguousFrom(st) ==
    {o \in st.buffer_offset..(st.buffer_offset + st.buffer.len) :
        \A k \in st.buffer_offset..(o - 1) :
            \E start \in DOMAIN st.received :
                start <= k /\ k < start + st.received[start]}

\* C34: readable_buffered_length() is the number of bytes received without a
\* hole from buffer_offset on: 0 while the byte at buffer_offset has not been
\* received, and the whole contiguous length once it has.
C34_ReadableIsContiguous ==
    readable_buffered_length(stm)
        = SetMax(ContiguousFrom(stm.state)) - stm.state.buffer_offset

\* C39: in every reachable state of a Stream highest_acked <= window_limit,
\* so that window_limit - highest_acked in estimate_window_scale never
\* underflows.
C39_AckedWithinLimit == stm.highest_acked <= stm.state.window_limit

----------------------------------------------------------------------------
(* SpecRead: one Stream whose segments leave holes, read by a handler with
   read_gaps_until, read_buffer_until and consume_until *)

RdSetIsn == SetIsnCall({MAX_ALLOWED_BUFFER_SIZE - 1})
RdData == DataCall({0, 2, 3}, 1..MaxStLen)
RdReadGapsUntil == ReadGapsUntilCall(0..MAX_ALLOWED_BUFFER_SIZE)
RdReadBufferUntil == ReadBufferUntilCall(0..MAX_ALLOWED_BUFFER_SIZE)
RdConsumeUntil == ConsumeUntilCall({1, 2, MAX_ALLOWED_BUFFER_SIZE - 1})

RdNext ==
    \/ RdSetIsn
    \/ RdData
    \/ RdReadGapsUntil
    \/ RdReadBufferUntil
    \/ RdConsumeUntil

InitRead == InitSt
NextRead == RdNext /\ UNCHANGED <<base_vars, fl_vars, cn_vars, ft_vars>>
SpecRead == InitRead /\ [][NextRead]_vars

\* the end_offset of the call a step makes, and whether it lies within the
\* buffer
RdEnd == st_last'.offset[1]
RdWithinBuffer ==
    /\ stm.state.buffer_offset < RdEnd
    /\ RdEnd <= stm.state.buffer_offset + stm.state.buffer.len

\* a read_buffer_until within the buffer returns the range, marks all of it
\* received and moves nothing, and a read_gaps_until to the same end then
\* finds no gap; any other read_buffer_until returns None and changes nothing
ReadBufferMarks ==
    st_last'.op = "read_buffer_until" =>
        IF RdWithinBuffer
        THEN /\ st_last'.ret = "Some"
             /\ has_range(stm'.state.received,
                          Rng(stm.state.buffer_offset, RdEnd))
             /\ stm'.state.buffer = stm.state.buffer
             /\ stm'.state.buffer_offset = stm.state.buffer_offset
             /\ read_gaps_until(stm', RdEnd, <<>>).ret = <<>>
             /\ read_gaps_until(stm', RdEnd, <<>>).st.gaps_length
                    = stm'.gaps_length
        ELSE /\ st_last'.ret = "None"
             /\ stm' = stm

\* buffer_offset moves only in consume_until
OnlyConsumeAdvances ==
    stm'.state.buffer_offset # stm.state.buffer_offset
        => st_last'.op = "consume_until"

----------------------------------------------------------------------------
(* SpecSeg: the segment info of a Stream: packets at a few offsets, the
   reverse_acked of the stream changing in between, and pop_segments_until
   with and without an end offset *)

SgSetIsn == SetIsnCall({MAX_ALLOWED_BUFFER_SIZE + 1})
SgData == DataCall({0, 1}, {1})
SgAck == AckCall(0..2, {0})
SgFin == FinCall({1}, {0})
SgReverseAcked == ReverseAckedCall(0..1)
SgPopSegmentsUntil == PopSegmentsUntilCall({<<>>, <<1>>, <<2>>})

SgNext ==
    \/ SgSetIsn
    \/ SgData
    \/ SgAck
    \/ SgFin
    \/ SgReverseAcked
    \/ SgPopSegmentsUntil

InitSeg == InitSt
NextSeg == SgNext /\ UNCHANGED <<base_vars, fl_vars, cn_vars, ft_vars>>
SpecSeg == InitSeg /\ [][NextSeg]_vars

\* the number of times e occurs in the sequence
Occurrences(seq, e) == Cardinality({i \in 1..Len(seq) : seq[i] = e})
\* the number of copies of e in the heap
Copies(heap, e) == IF e \in DOMAIN heap THEN heap[e] ELSE 0

\* C20: pop_segments_until appends the entries in ascending order of offset,
\* entries of one offset in ascending order of reverse_acked, whatever the order
\* they were recorded in; given Some(end) it pops the entries with offset < end
\* and leaves the entries with offset >= end in the heap, given None it pops
\* every entry; no entry is lost or made up.
C20_PopInOffsetOrder ==
    [][ st_last'.op = "pop_segments_until" =>
          LET popped == st_last'.popped
              end_offset == st_last'.offset
          IN  /\ \A i, j \in 1..Len(popped) : i < j =>
                    \/ popped[i].offset < popped[j].offset
                    \/ /\ popped[i].offset = popped[j].offset
                       /\ popped[i].reverse_acked <= popped[j].reverse_acked
              /\ \A e \in DOMAIN stm.segments_info :
                    /\ Occurrences(popped, e) + Copies(stm'.segments_info, e)
                         = stm.segments_info[e]
                    /\ Occurrences(popped, e) =
                         IF end_offset = <<>> \/ e.offset < end_offset[1]
                         THEN stm.segments_info[e]
                         ELSE 0
              /\ \A i \in 1..Len(popped) : popped[i] \in DOMAIN stm.segments_info
      ]_vars

\* two entries of one offset have been popped, the one with the smaller
\* reverse_acked first, up to an end offset that left
\* an entry in the heap
C20_Witness ==
    /\ st_last.op = "pop_segments_until"
    /\ st_last.offset # <<>>
    /\ Len(st_last.popped) >= 2
    /\ st_last.popped[1].offset = st_last.popped[2].offset
    /\ st_last.popped[1].reverse_acked < st_last.popped[2].reverse_acked
    /\ DOMAIN stm.segments_info # {}

----------------------------------------------------------------------------
(* Specification SpecFlow: Flows used as the keys of a HashMap, as FlowTable
   uses them. *)

Flows ==
    {Flow(proto, src_addr, src_port, dst_addr, dst_port) :
        proto \in {IPPROTO_TCP, IPPROTO_UDP},
        src_addr \in 1..MaxAddr, src_port \in 1..MaxPort,
        dst_addr \in 1..MaxAddr, dst_port \in 1..MaxPort}

FlInit ==
    /\ flow_map = {}
    /\ fl_last = FlNoCall

\* what the operation computed of its key: the hash of the key and the keys
\* of the map that are equal to it
FlCalled(op, key, found) ==
    fl_last' = [op |-> op, key |-> key, hash |-> hash(key),
                equal |-> {e.key : e \in {x \in flow_map : eq(x.key, key)}},
                found |-> found]

\* the keys inserted are those FlowTable inserts, Flows of IPPROTO_TCP; an
\* entry gets the number of the insertion as its value
FlInsert ==
    \E key \in {f \in Flows : f.proto = IPPROTO_TCP} :
        /\ Cardinality(HashMap_insert(flow_map, key, 0)) <= MaxFlows
        /\ flow_map' = HashMap_insert(flow_map, key, Cardinality(flow_map) + 1)
        /\ fl_last' = [FlNoCall EXCEPT !.op = "insert"]

FlGet ==
    \E key \in Flows :
        /\ flow_map' = flow_map
        /\ FlCalled("get", key, HashMap_get(flow_map, key))

FlRemove ==
    \E key \in Flows :
        /\ HashMap_get(flow_map, key) # <<>>
        /\ flow_map' = HashMap_remove(flow_map, key)
        /\ fl_last' = [FlNoCall EXCEPT !.op = "remove"]

FlNext == FlInsert \/ FlGet \/ FlRemove

InitFlow == FlInit /\ BaseIdle /\ debug_assertions = FALSE /\ StIdle /\ CnIdle /\ FtIdle
NextFlow == FlNext /\ UNCHANGED <<base_vars, debug_assertions, st_vars, cn_vars, ft_vars>>
SpecFlow == InitFlow /\ [][NextFlow]_vars

\* the same protocol and the same two endpoints, in the same or in the
\* swapped order
Related(f, g) ==
    /\ f.proto = g.proto
    /\ \/ <<f.src_addr, f.src_port, f.dst_addr, f.dst_port>>
          = <<g.src_addr, g.src_port, g.dst_addr, g.dst_port>>
       \/ <<f.src_addr, f.src_port, f.dst_addr, f.dst_port>>
          = <<g.dst_addr, g.dst_port, g.src_addr, g.src_port>>

\* C16: a key of the map is equal to the key looked up exactly when the two
\* have the same protocol and the same two endpoints in the same or the
\* swapped order, a key equal to it is stored under its hash, and the lookup
\* finds the value of the entry with such a key and nothing when there is none.
C16_FlowEqHash ==
    fl_last.op = "get" =>
        /\ \A e \in flow_map :
              /\ (e.key \in fl_last.equal) <=> Related(e.key, fl_last.key)
              /\ e.key \in fl_last.equal => e.hash = fl_last.hash
        /\ IF \E e \in flow_map : Related(e.key, fl_last.key)
           THEN \E e \in flow_map : /\ Related(e.key, fl_last.key)
                                    /\ fl_last.found = <<e.value>>
           ELSE fl_last.found = <<>>

\* a lookup with the reversed tuple of an entry has found its value, while
\* the map holds another entry under the same hash with another value
C16_Witness ==
    /\ fl_last.op = "get"
    /\ \E e \in flow_map :
          /\ fl_last.key = reversed(e.key)
          /\ fl_last.key # e.key
          /\ fl_last.found = <<e.value>>
          /\ \E o \in flow_map :
                /\ o.hash = e.hash
                /\ ~Related(o.key, e.key)
                /\ o.value # e.value

----------------------------------------------------------------------------
(* Specification SpecConn: one Connection fed the packets of a three-way
   handshake and of one data segment in each direction, or any other packet
   of a small set. *)

\* the tuple of the client (address 1) and the server (address 2)
FlowAB == Flow(IPPROTO_TCP, 1, 1, 2, 2)

\* a packet of the client (dir "Forward") or of the server
Packet(dir, seq_number, ack_number, flags, window, option_window_scale) ==
    IF dir = "Forward"
    THEN TcpMeta(1, 1, 2, 2, seq_number, ack_number, flags, window,
                 option_window_scale)
    ELSE TcpMeta(2, 2, 1, 1, seq_number, ack_number, flags, window,
                 option_window_scale)

SYN == TcpFlags(TRUE, FALSE, FALSE, FALSE)
SYN_ACK == TcpFlags(TRUE, TRUE, FALSE, FALSE)
ACK == TcpFlags(FALSE, TRUE, FALSE, FALSE)
FIN_ACK == TcpFlags(FALSE, TRUE, TRUE, FALSE)
RST == TcpFlags(FALSE, FALSE, FALSE, TRUE)

\* the initial sequence numbers, the windows and the window scale options of
\* the packets
CnIsns == {1, SeqSpace - 1}
CnWindows == {0, MaxCnWindow}
CnScales == {<<>>, <<1>>}

CnInit ==
    /\ \E flow \in {FlowAB, reversed(FlowAB)} : the_conn = <<Connection_new(flow)>>
    /\ cn_last = CnNoCall
    /\ debug_assertions \in BOOLEAN

\* Connection::handle_packet called with meta and len bytes, as packet
\* number step of the handshake with the given sequence numbers and bytes sent
PacketCalled(op, meta, len, step, isns, sent) ==
    /\ ~cn_last.panicked
    /\ cn_last.calls < MaxCnCalls
    /\ \E res \in {Connection_handle_packet(the_conn[1], meta, Payload(len, 1))} :
        /\ the_conn' = <<res.conn>>
        /\ cn_last' = [op |-> op, meta |-> meta, len |-> len, ret |-> res.ret,
                       panicked |-> res.panicked,
                       before |-> the_conn[1].conn_state,
                       calls |-> cn_last.calls + 1, step |-> step,
                       isns |-> isns, sent |-> sent]
    /\ UNCHANGED debug_assertions

\* the SYN of the client
CnSyn ==
    /\ cn_last.step = 0
    /\ \E isn \in CnIsns, window \in CnWindows, scale \in CnScales :
        PacketCalled("syn", Packet("Forward", isn, 0, SYN, window, scale), 0,
                     1, <<isn, 0>>, <<0, 0>>)

\* the SYN/ACK of the server: ack = seq + 1
CnSynAck ==
    /\ cn_last.step = 1
    /\ \E isn \in CnIsns, window \in CnWindows, scale \in CnScales :
        PacketCalled("syn_ack",
                     Packet("Reverse", isn, wrapping_add(cn_last.isns[1], 1),
                            SYN_ACK, window, scale),
                     0, 2, <<cn_last.isns[1], isn>>, <<0, 0>>)

\* the final ACK of the client
CnFinalAck ==
    /\ cn_last.step = 2
    /\ \E window \in CnWindows :
        PacketCalled("final_ack",
                     Packet("Forward", wrapping_add(cn_last.isns[1], 1),
                            wrapping_add(cn_last.isns[2], 1), ACK, window, <<>>),
                     0, 3, cn_last.isns, <<0, 0>>)

\* one new data segment of the client; it acknowledges the bytes of the
\* server, if any
CnDataForward ==
    /\ cn_last.step \in {3, 4}
    /\ cn_last.sent[1] = 0
    /\ \E len \in 1..MaxCnLen, window \in CnWindows :
        PacketCalled("data",
                     Packet("Forward", wrapping_add(cn_last.isns[1], 1),
                            wrapping_add(cn_last.isns[2], 1 + cn_last.sent[2]),
                            ACK, window, <<>>),
                     len, cn_last.step + 1, cn_last.isns,
                     <<len, cn_last.sent[2]>>)

\* one new data segment of the server
CnDataReverse ==
    /\ cn_last.step \in {3, 4}
    /\ cn_last.sent[2] = 0
    /\ \E len \in 1..MaxCnLen, window \in CnWindows :
        PacketCalled("data",
                     Packet("Reverse", wrapping_add(cn_last.isns[2], 1),
                            wrapping_add(cn_last.isns[1], 1 + cn_last.sent[1]),
                            ACK, window, <<>>),
                     len, cn_last.step + 1, cn_last.isns,
                     <<cn_last.sent[1], len>>)

\* any packet of the given set, which ends the handshake fed so far
PacketCall(metas, lens) ==
    \E meta \in metas, len \in lens :
        /\ (meta.flags.syn \/ meta.flags.rst) => len = 0
        /\ PacketCalled("packet", meta, len, -1, cn_last.isns, cn_last.sent)

CnOther ==
    PacketCall({Packet(dir, 1, 2, flags, MaxCnWindow, <<>>) :
                    dir \in {"Forward", "Reverse"}, flags \in {SYN, ACK, RST}},
               {0})

CnNext ==
    \/ CnSyn
    \/ CnSynAck
    \/ CnFinalAck
    \/ CnDataForward
    \/ CnDataReverse
    \/ CnOther

InitConn == CnInit /\ BaseIdle /\ StIdle /\ FlIdle /\ FtIdle
NextConn == CnNext /\ UNCHANGED <<base_vars, st_vars, fl_vars, ft_vars>>
SpecConn == InitConn /\ [][NextConn]_vars

\* C12: no packet of a well-formed handshake followed by one new data segment
\* in each direction fails, and once they are fed the handler has got
\* handshake_done once, data_received once in each direction and no
\* connection_desync, and the connection is Established; no handler gets
\* handshake_done twice.
C12_HandshakeEvents ==
    LET events == the_conn[1].event_handler IN
    /\ cn_last.step > 0 => ~cn_last.panicked
    /\ cn_last.step = 5 =>
          /\ Occurrences(events, Event("handshake_done", "")) = 1
          /\ Occurrences(events, Event("data_received", "Forward")) = 1
          /\ Occurrences(events, Event("data_received", "Reverse")) = 1
          /\ \A i \in 1..Len(events) : events[i].name # "connection_desync"
          /\ the_conn[1].conn_state.kind = "Established"
    /\ Occurrences(events, Event("handshake_done", "")) <= 1

----------------------------------------------------------------------------
(* Specification SpecTerm: one Connection fed packets of every kind, with
   the sequence numbers of a client that starts at 1 and a server that starts
   at 2. *)

TermPackets ==
    {Packet("Forward", 1, 2, flags, MaxCnWindow, <<>>) :
        flags \in {SYN, ACK, FIN_ACK, RST}}
    \cup {Packet("Forward", 1, 3, ACK, MaxCnWindow, <<>>)}
    \cup {Packet("Reverse", 2, 2, flags, MaxCnWindow, <<>>) :
            flags \in {FIN_ACK, RST}}

\* a packet without data
TermPacket == PacketCall(TermPackets, {0})

\* a segment of the client with data
TermData == PacketCall({Packet("Forward", 1, 2, ACK, MaxCnWindow, <<>>)}, {1})

TermNext == TermPacket \/ TermData

InitTerm == InitConn
NextTerm == TermNext /\ UNCHANGED <<base_vars, st_vars, fl_vars, ft_vars>>
SpecTerm == InitTerm /\ [][NextTerm]_vars

\* C14: a packet given to a connection that is Closed or Desync leaves
\* conn_state as it is.
C14_Terminal ==
    [][the_conn[1].conn_state.kind \in {"Closed", "Desync"}
       => the_conn'[1].conn_state = the_conn[1].conn_state]_vars

Directions == {"Forward", "Reverse"}

\* the stream of one direction of a connection
StreamOf(conn, dir) ==
    IF dir = "Forward" THEN conn.forward_stream ELSE conn.reverse_stream

\* the entries that the step pushes to segments_info of the stream of dir
Pushed(dir) ==
    LET held == StreamOf(the_conn[1], dir).segments_info
        after == StreamOf(the_conn'[1], dir).segments_info
    IN  {e \in DOMAIN after : e \notin DOMAIN held \/ after[e] > held[e]}

\* C33, in every state: reverse_acked of each stream is highest_acked of the
\* other
ReverseAckedKept ==
    \A d \in Directions :
        StreamOf(the_conn[1], d).reverse_acked
            = StreamOf(the_conn[1], swap(d)).highest_acked

\* C33, in every step: an entry pushed carries highest_acked of the other
\* direction as it is when the entry is pushed: a Data entry is pushed before
\* the acknowledgment of its packet is handled, the others after it
PushedStamped ==
    \A d \in Directions : \A e \in Pushed(d) :
        e.reverse_acked =
            IF e.data.type = "Data"
            THEN StreamOf(the_conn[1], swap(d)).highest_acked
            ELSE StreamOf(the_conn'[1], swap(d)).highest_acked

\* C33: every SegmentInfo entry (Data, Ack, Fin, Rst) a Stream pushes carries
\* reverse_acked equal to highest_acked of the opposite direction at the
\* moment of the push, and after every packet reverse_acked of each stream
\* equals highest_acked of the other.
C33_ReverseAcked ==
    /\ []ReverseAckedKept
    /\ [][PushedStamped]_vars

\* the server has had a byte acknowledged, and the stream of the client holds
\* a Data, a Fin and a Rst entry, one of them stamped with it
C33_Witness ==
    /\ the_conn[1].reverse_stream.highest_acked > 0
    /\ \A type \in {"Data", "Fin", "Rst"} :
        \E e \in DOMAIN the_conn[1].forward_stream.segments_info :
            e.data.type = type
    /\ \E e \in DOMAIN the_conn[1].forward_stream.segments_info :
        e.reverse_acked > 0
    /\ \E e \in DOMAIN the_conn[1].reverse_stream.segments_info :
        e.data.type = "Ack"

----------------------------------------------------------------------------
(* Specification SpecReset: one Connection that a segment of the client
   establishes, with acknowledgments of the server that raise highest_acked
   of the client's stream, and resets of the client at the offsets around
   it. *)

\* a segment of the client, the first of which completes the handshake with
\* the initial sequence numbers 1 and 2
ResetData ==
    PacketCall({Packet("Forward", 1, 2, ACK, MaxCnWindow, <<>>)}, {0, 1})

\* the server acknowledges offset acked of the client's stream
ResetAck ==
    PacketCall({Packet("Reverse", 2, 1 + acked, ACK, MaxCnWindow, <<>>) :
                    acked \in 1..RESET_MAX_LOOKBEHIND + 1},
               {0})

\* a reset of the client at an offset of its stream
ResetRst ==
    PacketCall({Packet("Forward", 1 + offset, 2, RST, MaxCnWindow, <<>>) :
                    offset \in 0..(2 * RESET_MAX_LOOKBEHIND + RESET_MAX_LOOKAHEAD + 2)},
               {0})

ResetNext == ResetData \/ ResetAck \/ ResetRst

InitReset == InitConn
NextReset == ResetNext /\ UNCHANGED <<base_vars, st_vars, fl_vars, ft_vars>>
SpecReset == InitReset /\ [][NextReset]_vars

\* the step gives a RST to a connection that is Established
RstOnEstablished ==
    /\ cn_last'.meta # <<>>
    /\ cn_last'.calls = cn_last.calls + 1
    /\ cn_last'.meta.flags.rst /\ ~cn_last'.meta.flags.syn
    /\ cn_last'.before.kind = "Established"

\* C30: a RST given to an Established connection is accepted when its
\* sequence number maps to an offset o of its stream with
\* max(0, highest_acked - RESET_MAX_LOOKBEHIND) <= o
\* <= highest_acked + RESET_MAX_LOOKAHEAD, and only then; an accepted RST adds
\* an Rst entry to segments_info, sets had_reset of its stream, closes the
\* connection and calls rst_received; a rejected RST leaves the connection,
\* its streams and the callbacks of the handler as they were.
C30_ResetWindow ==
    [][ RstOnEstablished =>
          LET dir == compare_tcp_meta(the_conn[1].forward_flow, cn_last'.meta)
              st == StreamOf(the_conn[1], dir)
              upd == update_offset(st.seq, cn_last'.meta.seq_number, FALSE)
              low == IF st.highest_acked > RESET_MAX_LOOKBEHIND
                     THEN st.highest_acked - RESET_MAX_LOOKBEHIND ELSE 0
              accepted == /\ upd.ret # <<>>
                          /\ low <= upd.ret[1]
                          /\ upd.ret[1] <= st.highest_acked + RESET_MAX_LOOKAHEAD
              info == SegmentInfo(upd.ret[1], st.reverse_acked, Rst)
          IN  /\ ~cn_last'.panicked
              /\ IF accepted
                 THEN /\ cn_last'.ret
                      /\ the_conn'[1].conn_state = Closed
                      /\ StreamOf(the_conn'[1], dir).had_reset
                      /\ StreamOf(the_conn'[1], dir).segments_info
                         = heap_push(st.segments_info, info)
                      /\ the_conn'[1].event_handler
                         = Append(the_conn[1].event_handler,
                                  Event("rst_received", dir))
                 ELSE /\ ~cn_last'.ret
                      /\ the_conn' = the_conn
      ]_vars

----------------------------------------------------------------------------
(* Specification SpecClose: one Connection that a segment of the client
   establishes, given the FIN of each side and acknowledgments before and
   after them, in any order. *)

\* the client sends one byte at sequence number 1 and its FIN at 2, the
\* server its FIN at 2
ClosePackets ==
    {Packet("Forward", 1, 2, ACK, MaxCnWindow, <<>>),
     Packet("Forward", 2, 2, FIN_ACK, MaxCnWindow, <<>>),
     Packet("Forward", 3, 2, ACK, MaxCnWindow, <<>>),
     Packet("Forward", 3, 3, ACK, MaxCnWindow, <<>>),
     Packet("Reverse", 2, 2, ACK, MaxCnWindow, <<>>),
     Packet("Reverse", 2, 3, ACK, MaxCnWindow, <<>>),
     Packet("Reverse", 2, 2, FIN_ACK, MaxCnWindow, <<>>),
     Packet("Reverse", 2, 3, FIN_ACK, MaxCnWindow, <<>>)}

\* the segment of the client with its byte
CloseData == PacketCall({Packet("Forward", 1, 2, ACK, MaxCnWindow, <<>>)}, {1})

\* a packet without data
ClosePacket == PacketCall(ClosePackets, {0})

CloseNext == CloseData \/ ClosePacket

InitClose == InitConn
NextClose == CloseNext /\ UNCHANGED <<base_vars, st_vars, fl_vars, ft_vars>>
SpecClose == InitClose /\ [][NextClose]_vars

\* the FIN of the stream has been recorded and highest_acked is beyond it
FinAcked(st) ==
    /\ st.state.final_offset # <<>>
    /\ st.highest_acked > st.state.final_offset[1]

\* the step gives handle_data_established a packet with an acknowledgment
\* that the stream of direction d takes
AckHandled(d) ==
    /\ cn_last'.calls = cn_last.calls + 1
    /\ ~cn_last'.panicked
    /\ cn_last'.meta.flags.ack
    /\ ~cn_last'.meta.flags.syn /\ ~cn_last'.meta.flags.rst
    /\ (cn_last'.before.kind \in {"None", "SynSent", "SynReceived"}
            => cn_last'.len > 0)
    /\ compare_tcp_meta(the_conn'[1].forward_flow, cn_last'.meta) = swap(d)
    /\ update_offset(StreamOf(the_conn'[1], d).seq, cn_last'.meta.ack_number,
                     TRUE).ret # <<>>

\* C21, in every state: stream_end(d) has been called once if has_ended(d)
\* and not at all otherwise, and has_ended(d) only with the FIN of d recorded
\* and highest_acked beyond the final offset.
EndedOnce ==
    \A d \in Directions :
        LET st == StreamOf(the_conn[1], d) IN
        /\ Occurrences(the_conn[1].event_handler, Event("stream_end", d))
           = IF st.has_ended THEN 1 ELSE 0
        /\ st.has_ended => FinAcked(st)

\* C21, in every step: has_ended(d) stays true; it becomes true in a step
\* that handles an acknowledgment travelling opposite to d, and does so in
\* every such step that finds the FIN of d recorded and leaves highest_acked
\* beyond the final offset; the connection is Closed after the step in which
\* the second direction ends.
EndedByAck ==
    \A d \in Directions :
        LET st == StreamOf(the_conn[1], d)
            after == StreamOf(the_conn'[1], d)
        IN  /\ st.has_ended => after.has_ended
            /\ (~st.has_ended /\ after.has_ended) =>
                  /\ AckHandled(d)
                  /\ the_conn'[1].event_handler[Len(the_conn'[1].event_handler)]
                     = Event("stream_end", d)
                  /\ StreamOf(the_conn[1], swap(d)).has_ended
                        => the_conn'[1].conn_state = Closed
            /\ (AckHandled(d) /\ st.state.final_offset # <<>> /\ FinAcked(after))
                  => after.has_ended

\* C21: for each direction d, stream_end(d) is called exactly once, by the
\* packet whose acknowledgment, travelling opposite to d, first leaves
\* highest_acked of d beyond the final offset of d with the FIN of d
\* recorded; has_ended(d) is true from then on; stream_end(d) is not called
\* before the FIN of d has been seen; and the connection is Closed once the
\* second direction has ended.
C21_StreamEndOnce ==
    /\ []EndedOnce
    /\ [][EndedByAck]_vars

\* both directions have ended, the client's first, each with one stream_end,
\* and the connection is Closed
C21_Witness ==
    /\ the_conn # <<>>
    /\ the_conn[1].forward_stream.has_ended
    /\ the_conn[1].reverse_stream.has_ended
    /\ the_conn[1].conn_state = Closed
    /\ the_conn[1].observed_close
    /\ Occurrences(the_conn[1].event_handler, Event("stream_end", "Forward")) = 1
    /\ Occurrences(the_conn[1].event_handler, Event("stream_end", "Reverse")) = 1
    /\ ~cn_last.panicked

\* the ack_received events the handler has got
AckReceived(conn) ==
    Cardinality({i \in 1..Len(conn.event_handler) :
                    conn.event_handler[i].name = "ack_received"})

\* C32: in state Established, ack_received is emitted for a packet only if
\* the acknowledgment number of the packet advanced highest_acked of the
\* opposite stream; an acknowledgment at or below highest_acked emits none.
C32_AckReceivedOnAdvance ==
    [][ (cn_last'.calls = cn_last.calls + 1
         /\ the_conn[1].conn_state.kind = "Established"
         /\ AckReceived(the_conn'[1]) > AckReceived(the_conn[1])) =>
          LET acked == swap(compare_tcp_meta(the_conn[1].forward_flow, cn_last'.meta))
          IN  StreamOf(the_conn'[1], acked).highest_acked
                > StreamOf(the_conn[1], acked).highest_acked
      ]_vars

----------------------------------------------------------------------------
(* Specification SpecSyn: one Connection given the SYN of a client and
   SYN/ACKs with matching and other acknowledgment numbers, in both
   directions, then segments of the client. *)

\* the SYN of the client at sequence number 1 or at the largest one, SYN/ACKs
\* that acknowledge 0, 2 or 3, and the final ACK of the client
SynPackets ==
    {Packet("Forward", seq, 0, SYN, MaxCnWindow, <<>>) : seq \in CnIsns}
    \cup {Packet(dir, 2, ack, SYN_ACK, MaxCnWindow, <<>>) :
            dir \in Directions, ack \in {0, 2, 3}}
    \cup {Packet("Forward", 2, 3, ACK, MaxCnWindow, <<>>)}

\* a packet without data
SynPacket == PacketCall(SynPackets, {0})

\* a segment of the client with data
SynData == PacketCall({Packet("Forward", 2, 3, ACK, MaxCnWindow, <<>>)}, {1})

SynNext == SynPacket \/ SynData

InitSyn == InitConn
NextSyn == SynNext /\ UNCHANGED <<base_vars, st_vars, fl_vars, ft_vars>>
SpecSyn == InitSyn /\ [][NextSyn]_vars

\* the packet is a SYN/ACK of the reverse direction that acknowledges
\* seq_no + 1 modulo 2^32
SynAckMatches(conn, meta) ==
    /\ meta.flags.syn /\ meta.flags.ack
    /\ compare_tcp_meta(conn.forward_flow, meta) = "Reverse"
    /\ meta.ack_number = (conn.conn_state.seq_no + 1) % SeqSpace

\* C31: in state SynSent{seq} the connection moves to SynReceived only on a
\* SYN/ACK of the reverse direction whose acknowledgment number is seq + 1
\* modulo 2^32, which for the largest seq is 0 and fails no arithmetic; a
\* SYN/ACK with another acknowledgment number or of the forward direction
\* leaves the state SynSent{seq}.
C31_SynAckMatched ==
    [][ (cn_last'.calls = cn_last.calls + 1
         /\ the_conn[1].conn_state.kind = "SynSent") =>
          LET meta == cn_last'.meta
              matches == SynAckMatches(the_conn[1], meta)
          IN  /\ ~cn_last'.panicked
              /\ the_conn'[1].conn_state.kind = "SynReceived" => matches
              /\ matches => the_conn'[1].conn_state.kind = "SynReceived"
              /\ (meta.flags.syn /\ meta.flags.ack /\ ~matches) =>
                    the_conn'[1].conn_state = the_conn[1].conn_state
      ]_vars

----------------------------------------------------------------------------
(* Specification SpecRP: one ReplayProtection shared by MaxThreads threads
   that call set_index and test_index.  A step of a thread is one of: the
   call, taking the lock for reading, what it does holding the lock for
   reading, taking the lock for writing, what it does holding the lock for
   writing.  The RwLock lets a thread read while no thread writes, and write
   while no other thread holds the lock. *)

\* the sizes given to ReplayProtection::new: bitfields of 0, 2 and 4 elements
RpSizes == {0, 1, 2 * UsizeBits + 1}
\* the indices the threads call with: two that the window of 2 elements
\* holds at first, one that moves it by an element and one that moves it by
\* more than its length
RpIndices == {0, UsizeBits + 1, 2 * UsizeBits + 1, MaxRpIndex}

InitRP ==
    /\ rp_inner \in {ReplayProtection_new(size) : size \in RpSizes}
    /\ rp_lock = RpUnlocked
    /\ rp_threads = [t \in Threads |-> RpNoCall]
    /\ rp_hist = RpNoHist
    /\ RsIdle /\ RbIdle /\ InIdle /\ SqIdle /\ ExtIdle

\* thread t moves to pc
RpAt(t, pc) == rp_threads' = [rp_threads EXCEPT ![t].pc = pc]

\* the call of thread t returns ret; for set_index the return is recorded:
\* raced holds the indices for which a set_index call returned that began
\* before the first return of a set_index call with the index
RpReturn(t, ret) ==
    LET me == rp_threads[t] IN
    /\ rp_threads' = [rp_threads EXCEPT ![t].pc = "idle", ![t].ret = <<ret>>]
    /\ rp_hist' =
         IF me.op = "set_index"
         THEN [falses |-> [rp_hist.falses EXCEPT ![me.index] =
                              @ + (IF ret THEN 0 ELSE 1)],
               returned |-> rp_hist.returned \cup {me.index},
               raced |-> IF ~me.late /\ me.index \in rp_hist.returned
                         THEN rp_hist.raced \cup {me.index}
                         ELSE rp_hist.raced]
         ELSE rp_hist

\* a thread calls set_index(index) or test_index(index); late: a set_index
\* call with this index has returned before
RpCall(op) ==
    \E t \in Threads : \E index \in RpIndices :
        /\ rp_threads[t].pc = "idle"
        /\ rp_threads[t].calls < MaxRpCalls
        /\ rp_threads' = [rp_threads EXCEPT ![t] =
                [pc |-> "read", op |-> op, index |-> index,
                 late |-> index \in rp_hist.returned, ret |-> <<>>,
                 calls |-> @.calls + 1]]
        /\ UNCHANGED <<rp_inner, rp_lock, rp_hist>>

RpCallSetIndex == RpCall("set_index")
RpCallTestIndex == RpCall("test_index")

\* self.inner.read()
RpRead ==
    \E t \in Threads :
        /\ rp_threads[t].pc = "read"
        /\ rp_lock.writer = <<>>
        /\ rp_lock' = [rp_lock EXCEPT !.readers = @ \cup {t}]
        /\ RpAt(t, "resolve")
        /\ UNCHANGED <<rp_inner, rp_hist>>

\* set_index with the lock held for reading: the match on resolve_index
RpSetIndex ==
    \E t \in Threads :
        LET me == rp_threads[t]
            resolved == resolve_index(rp_inner, me.index)
        IN  /\ me.pc = "resolve"
            /\ me.op = "set_index"
            /\ rp_lock' = [rp_lock EXCEPT !.readers = @ \ {t}]
            /\ CASE resolved.kind = "Found" ->
                     LET old == rp_inner.bitfield[resolved.element + 1] IN
                     /\ rp_inner' = [rp_inner EXCEPT
                            !.bitfield[resolved.element + 1] =
                                fetch_or(old, resolved.mask)]
                     /\ RpReturn(t, masked(old, resolved.mask))
                 [] resolved.kind = "TooNew" ->
                     /\ RpAt(t, "write")
                     /\ UNCHANGED <<rp_inner, rp_hist>>
                 [] resolved.kind = "TooOld" ->
                     /\ RpReturn(t, TRUE)
                     /\ UNCHANGED rp_inner

\* self.inner.write()
RpWrite ==
    \E t \in Threads :
        /\ rp_threads[t].pc = "write"
        /\ rp_lock = RpUnlocked
        /\ rp_lock' = [rp_lock EXCEPT !.writer = <<t>>]
        /\ RpAt(t, "advance")
        /\ UNCHANGED <<rp_inner, rp_hist>>

\* set_index with the lock held for writing: advance_window, and the loop
\* starts over
RpAdvanceWindow ==
    \E t \in Threads :
        /\ rp_threads[t].pc = "advance"
        /\ rp_inner' = ReplayProtection_advance_window(rp_inner, rp_threads[t].index)
        /\ rp_lock' = RpUnlocked
        /\ RpAt(t, "read")
        /\ UNCHANGED rp_hist

\* test_index with the lock held for reading
RpTestIndex ==
    \E t \in Threads :
        LET me == rp_threads[t]
            resolved == resolve_index(rp_inner, me.index)
        IN  /\ me.pc = "resolve"
            /\ me.op = "test_index"
            /\ rp_lock' = [rp_lock EXCEPT !.readers = @ \ {t}]
            /\ RpReturn(t, CASE resolved.kind = "Found" ->
                                masked(rp_inner.bitfield[resolved.element + 1],
                                       resolved.mask)
                             [] resolved.kind = "TooNew" -> FALSE
                             [] resolved.kind = "TooOld" -> TRUE)
            /\ UNCHANGED rp_inner

RpNext ==
    \/ RpCallSetIndex
    \/ RpCallTestIndex
    \/ RpRead
    \/ RpSetIndex
    \/ RpWrite
    \/ RpAdvanceWindow
    \/ RpTestIndex

NextRP == RpNext /\ UNCHANGED <<rs_vars, rb_vars, in_vars, sq_vars, ext_vars>>
SpecRP == InitRP /\ [][NextRP]_vars

\* C22: however the steps of the threads interleave, for every index at most
\* one set_index call returns false, and a set_index or test_index call made
\* after a set_index call with the same index has returned returns true,
\* also when the window has moved beyond the index.
C22_SetIndexOnce ==
    /\ \A i \in 0..MaxRpIndex : rp_hist.falses[i] <= 1
    /\ \A t \in Threads :
        (rp_threads[t].pc = "idle" /\ rp_threads[t].late)
            => rp_threads[t].ret = <<TRUE>>

\* two set_index calls with one index have run side by side and one of them
\* returned false, the window has since moved beyond the index, and a call
\* made after that has returned
C22_Witness ==
    \E i \in rp_hist.raced : \E t \in Threads :
        /\ rp_hist.falses[i] = 1
        /\ i < rp_inner.start_offset
        /\ rp_threads[t].pc = "idle"
        /\ rp_threads[t].index = i
        /\ rp_threads[t].late
        /\ rp_threads[t].ret = <<TRUE>>

----------------------------------------------------------------------------
(* Specification SpecFT: a FlowTable fed packets of two flows, with a handler
   whose constructor may fail, and closed. *)

\* a packet of the flow between client port `port` and the server: the
\* client sends sequence number 1, the server 2
FtPacket(port, dir, flags) ==
    IF dir = "Forward"
    THEN TcpMeta(1, port, 2, 2, 1, 2, flags, MaxCnWindow, <<>>)
    ELSE TcpMeta(2, 2, 1, port, 2, 2, flags, MaxCnWindow, <<>>)

FtPackets ==
    {FtPacket(port, "Forward", flags) : port \in 1..MaxPort, flags \in {SYN, ACK}}
    \cup {FtPacket(port, "Reverse", flags) :
            port \in 1..MaxPort, flags \in {SYN_ACK, RST}}

FtInit ==
    /\ flow_table = FlowTable_new
    /\ ft_last = FtNoCall
    /\ debug_assertions \in BOOLEAN

FtCalled(op, meta, constructs, before, res) ==
    /\ ~ft_last.panicked
    /\ ft_last.calls < MaxFtCalls
    /\ flow_table' = res.table
    /\ ft_last' = [op |-> op, meta |-> meta, constructs |-> constructs,
                   ret |-> res.ret, panicked |-> res.panicked,
                   before |-> before,
                   retired |-> Len(res.dropped) + Len(res.table.retired)
                               - Len(flow_table.retired),
                   dropped |-> ft_last.dropped \o res.dropped,
                   constructed |-> ft_last.constructed + res.constructed,
                   calls |-> ft_last.calls + 1]
    /\ UNCHANGED debug_assertions

\* the state of the connection the table holds for the flow of meta
StateOf(table, meta) ==
    IF HashMap_get(table.map, Flow_from(meta)) = <<>> THEN "NotFound"
    ELSE HashMap_get(table.map, Flow_from(meta))[1].conn_state.kind

\* save_retired is a public field, set before the table is used
FtSaveRetired ==
    /\ ft_last.op = "new"
    /\ ~flow_table.save_retired
    /\ flow_table' = [flow_table EXCEPT !.save_retired = TRUE]
    /\ UNCHANGED <<ft_last, debug_assertions>>

FtHandlePacket ==
    \E meta \in FtPackets, len \in 0..1, constructs \in BOOLEAN :
        /\ (meta.flags.syn \/ meta.flags.rst) => len = 0
        /\ \E res \in {FlowTable_handle_packet(flow_table, meta, Payload(len, 1),
                                                constructs)} :
              FtCalled("handle_packet", meta, constructs,
                       StateOf(flow_table, meta), res)

FtClose ==
    \E res \in close(flow_table) :
        FtCalled("close", <<>>, TRUE, "NotFound", res)

FtNext ==
    \/ FtSaveRetired
    \/ FtHandlePacket
    \/ FtClose

InitFT == FtInit /\ BaseIdle /\ StIdle /\ FlIdle /\ CnIdle
NextFT == FtNext /\ UNCHANGED <<base_vars, st_vars, fl_vars, cn_vars>>
SpecFT == InitFT /\ [][NextFT]_vars

WillRetire == Event("will_retire", "")

\* the handler has got will_retire once, as its last callback
RetiredOnce(events) ==
    /\ Occurrences(events, WillRetire) = 1
    /\ events[Len(events)] = WillRetire

\* C13: a handler that was dropped or saved as retired has got will_retire
\* once and nothing after it, a handler of the map has not got it, every
\* connection constructed is in the map or has been retired, and when close
\* has returned the map is empty, so that every connection constructed has
\* been retired once.
C13_RetiredOnce ==
    /\ \A i \in 1..Len(ft_last.dropped) : RetiredOnce(ft_last.dropped[i])
    /\ \A i \in 1..Len(flow_table.retired) :
          RetiredOnce(flow_table.retired[i].event_handler)
    /\ \A e \in flow_table.map : Occurrences(e.value.event_handler, WillRetire) = 0
    /\ ~ft_last.panicked =>
          ft_last.constructed = Len(ft_last.dropped) + Len(flow_table.retired)
                                + Cardinality(flow_table.map)
    /\ (ft_last.op = "close" /\ ~ft_last.panicked) =>
          /\ flow_table.map = {}
          /\ ft_last.constructed
             = Len(ft_last.dropped) + Len(flow_table.retired)

\* close has retired a connection, after handle_packet had retired another
C13_Witness ==
    /\ ft_last.op = "close"
    /\ ~ft_last.panicked
    /\ ft_last.retired >= 1
    /\ ft_last.constructed > ft_last.retired

\* the handlers retired so far, dropped or saved
RetiredLogs(table, last) ==
    {last.dropped[i] : i \in 1..Len(last.dropped)}
    \cup {table.retired[i].event_handler : i \in 1..Len(table.retired)}

\* handle_packet has been given a SYN for a connection that was Established
SynOnEstablished ==
    /\ ft_last'.op = "handle_packet"
    /\ ft_last'.before = "Established"
    /\ ft_last'.meta.flags.syn
    /\ ft_last' # ft_last

\* the Established connection of the SYN has got connection_desync and then
\* will_retire, as its last callbacks, and has left the map
OldRetired ==
    LET old == HashMap_get(flow_table.map, Flow_from(ft_last'.meta))[1]
        dir == compare_tcp_meta(old.forward_flow, ft_last'.meta)
        retired == old.event_handler
                   \o <<Event("connection_desync", dir), WillRetire>>
    IN  /\ ft_last'.retired = 1
        /\ IF flow_table.save_retired
           THEN /\ Len(flow_table'.retired) = Len(flow_table.retired) + 1
                /\ flow_table'.retired[Len(flow_table'.retired)].event_handler
                   = retired
                /\ ft_last'.dropped = ft_last.dropped
           ELSE /\ ft_last'.dropped = Append(ft_last.dropped, retired)
                /\ flow_table'.retired = flow_table.retired

\* a new connection of the tuple is in the map, has handled the SYN and has
\* called its handler for nothing
NewCreated ==
    LET found == HashMap_get(flow_table'.map, Flow_from(ft_last'.meta)) IN
    /\ found # <<>>
    /\ found[1].event_handler = <<>>
    /\ found[1].conn_state.kind \in {"SynSent", "SynReceived"}
    /\ found[1].conn_state.seq_no = ft_last'.meta.seq_number
    /\ ft_last'.constructed = ft_last.constructed + 1
    /\ ft_last'.ret = "Ok(true)"

\* the map holds no connection that is Desync or Closed, and unreachable!()
\* has not been hit
NoDeadConnection ==
    /\ \A e \in flow_table.map : e.value.conn_state.kind \notin {"Desync", "Closed"}
    /\ ft_last.ret # "unreachable"

\* C15 as stated: after a SYN for an Established connection the old
\* connection has been retired with connection_desync and a new connection of
\* the tuple has handled the SYN; the table never holds a Desync or Closed
\* connection and unreachable!() is never hit.
C15_Original ==
    /\ []NoDeadConnection
    /\ [][SynOnEstablished => (OldRetired /\ NewCreated)]_vars

\* C15: after a SYN for an Established connection the old connection has
\* been retired with connection_desync, and either a new connection of the
\* tuple has handled the SYN or, the handler constructor having failed,
\* handle_packet has returned the error and the table has no connection of
\* the tuple; the table never holds a Desync or Closed connection and
\* unreachable!() is never hit.
C15_DesyncRecreated ==
    /\ []NoDeadConnection
    /\ [][SynOnEstablished =>
            /\ OldRetired
            /\ IF ft_last'.constructs THEN NewCreated
               ELSE /\ ft_last'.ret = "Err"
                    /\ StateOf(flow_table', ft_last'.meta) = "NotFound"
                    /\ ft_last'.constructed = ft_last.constructed]_vars

\* a SYN for an Established connection has been handled by a new connection,
\* the old one having been retired with connection_desync
C15_Witness ==
    /\ ft_last.op = "handle_packet"
    /\ ft_last.before = "Established"
    /\ ft_last.meta.flags.syn
    /\ ft_last.ret = "Ok(true)"
    /\ StateOf(flow_table, ft_last.meta) \in {"SynSent", "SynReceived"}
    /\ \E log \in RetiredLogs(flow_table, ft_last) :
          \E i \in 1..Len(log) : log[i].name = "connection_desync"

\* C17: a handle_packet for a flow the table does not hold, with a handler
\* constructor that fails, returns the error and leaves the table, and with it
\* every connection and every handler, as it was.
C17_ConstructError ==
    [][(/\ ft_last'.op = "handle_packet"
        /\ ft_last' # ft_last
        /\ ft_last'.before = "NotFound"
        /\ ~ft_last'.constructs)
       => /\ ft_last'.ret = "Err"
          /\ ~ft_last'.panicked
          /\ flow_table' = flow_table
          /\ ft_last'.dropped = ft_last.dropped
          /\ ft_last'.constructed = ft_last.constructed]_vars

\* the constructor has failed for a new flow while the table held a
\* connection of another flow
C17_Witness ==
    /\ ft_last.op = "handle_packet"
    /\ ft_last.before = "NotFound"
    /\ ft_last.ret = "Err"
    /\ flow_table.map # {}

=============================================================================
